---------------------------- MODULE Spec2Model ----------------------------
(***************************************************************************)
(* Verification model of the F&B plant layout tool.                        *)
(*                                                                         *)
(*   src/src/utils/geometry.js          the geometric core                 *)
(*   src/src/app.jsx                    the lifted UI state                *)
(*   src/unnamed/part_001               ControlSection (buttons)           *)
(*   src/src/components/MapWithDraw.jsx the draw/edit/delete handlers      *)
(*                                                                         *)
(* Geometry is planar and integral.  A length unit is half a metre, so     *)
(* that w/2, h/2 and aisleWidth/2 are whole numbers of units; M(m) turns   *)
(* metres into units.  Sites are axis-aligned rectangles with an optional  *)
(* rectangular notch cut out of the north-east corner (an L-shape), and    *)
(* rotations are multiples of 90 degrees, so every block is axis-aligned.  *)
(* The turf.js predicates (booleanWithin, booleanPointInPolygon, buffer,   *)
(* pointGrid, destination) are modelled by their planar meaning.           *)
(***************************************************************************)
EXTENDS Integers, Sequences, FiniteSets, TLC

VARIABLES
  gArgs,    \* generateBlocks: the argument object of the call being run
  gSt,      \* generateBlocks: its locals (pc, k, rng, centers, out, count, last)
  gCalls,   \* generateBlocks: number of calls made so far
  gFirst    \* an earlier completed call, remembered: [args, out, n], or NULL

genVars == <<gArgs, gSt, gCalls, gFirst>>

VARIABLES
  call,     \* a core function applied on its own: [fn, args]
  ret,      \* what it did: [thrown, value]
  call0,    \* the call made before it, or NoCall
  ret0      \* what that call did

coreVars == <<call, ret, call0, ret0>>

VARIABLES
  site,               \* App: the site feature, or NULL
  blocks,             \* App: the features of the block collection
  validation,         \* App: the issue list
  layers,             \* MapWithDraw: the shapes in the FeatureGroup
  aisle,              \* ControlSection: Aisle (m)
  maxBlocks,          \* ControlSection: Max Blocks
  boundaryClearance,  \* ControlSection: Boundary clear (m)
  turnRadius,         \* ControlSection: Truck radius, in length units
  snapGrid,           \* App: the "Snap to grid" checkbox
  orthogonal,         \* App: the "Ortho edges" checkbox
  uiThrown            \* whether the last handler ended by throwing

uiVars == <<site, blocks, validation, layers, aisle, maxBlocks,
            boundaryClearance, turnRadius, uiThrown, snapGrid,
           orthogonal>>

VARIABLES
  snapArgs,   \* snapFeatureToGrid: [feature, spacingM, origin, orthogonal]
  snapOut,    \* the feature it returned, or NULL before the call
  snapOut2    \* the feature returned for snapOut with the same arguments, or NULL

snapVars == <<snapArgs, snapOut, snapOut2>>

VARIABLES
  heap,     \* the objects and arrays in memory, by address
  heap0,    \* the memory as it was when the last core function was called
  memCall,  \* that call: the function and the addresses of its arguments
  memRet    \* the address of what it returned, or NULL before any call

memVars == <<heap, heap0, memCall, memRet>>

VARIABLES
  heat,       \* App: the heat state {mode, cell, sources, squares, adding}
  clickHeat   \* MapWithDraw: the heat the subscribed map click handler closes over

heatVars == <<heat, clickHeat>>

vars == <<genVars, coreVars, uiVars, snapVars, memVars, heatVars>>

\* null / undefined is the empty tuple; a present value v is carried as <<v>>
NULL == <<>>
Some(v) == <<v>>
Val(o) == o[1]

----------------------------------------------------------------------------
(* 32-bit words, kept as <<hi, lo>> with 16-bit halves so that no          *)
(* intermediate product leaves the range of the checker's integers.        *)

RECURSIVE Xor16(_, _)
Xor16(a, b) ==
  IF a = 0 THEN b
  ELSE IF b = 0 THEN a
  ELSE (((a % 2) + (b % 2)) % 2) + 2 * Xor16(a \div 2, b \div 2)

RECURSIVE Or16(_, _)
Or16(a, b) ==
  IF a = 0 THEN b
  ELSE IF b = 0 THEN a
  ELSE (IF (a % 2) = 1 \/ (b % 2) = 1 THEN 1 ELSE 0) + 2 * Or16(a \div 2, b \div 2)

RECURSIVE Pow2(_)
Pow2(n) == IF n = 0 THEN 1 ELSE 2 * Pow2(n - 1)

\* x ^ y
XorW(x, y) == <<Xor16(x[1], y[1]), Xor16(x[2], y[2])>>

\* x | c for a small constant c (c < 2^16)
OrSmall(x, c) == <<x[1], Or16(x[2], c)>>

\* x >>> n, 0 < n < 16
ShrW(x, n) ==
  <<x[1] \div Pow2(n), (x[2] \div Pow2(n)) + (x[1] % Pow2(n)) * Pow2(16 - n)>>

\* (x + y) mod 2^32
AddW(x, y) ==
  LET lo == x[2] + y[2]
  IN  <<(x[1] + y[1] + (lo \div 65536)) % 65536, lo % 65536>>

\* the full 32-bit product of two 16-bit numbers
Mul16(x, y) ==
  LET p0 == (x % 256) * y
      p1 == (x \div 256) * y
      s  == p0 + (p1 % 256) * 256
  IN  <<((s \div 65536) + (p1 \div 256)) % 65536, s % 65536>>

\* Math.imul(x, y): the low 32 bits of the product
ImulW(x, y) ==
  LET ll == Mul16(x[2], y[2])
      hl == Mul16(x[1], y[2])[2]
      lh == Mul16(x[2], y[1])[2]
  IN  <<(ll[1] + hl + lh) % 65536, ll[2]>>

\* ToUint32 of a small non-negative integer seed
WordOf(n) == <<(n \div 65536) % 65536, n % 65536>>

\* 0x6d2b79f5
MulberryInc == <<27947, 31221>>

\* One call of the closure returned by mulberry32(a): the new captured a and
\* the 32-bit numerator of the returned fraction (value = num / 2^32).
mulberry32(a) ==
  LET a1 == AddW(a, MulberryInc)
      t1 == ImulW(XorW(a1, ShrW(a1, 15)), OrSmall(a1, 1))
      t2 == XorW(t1, AddW(t1, ImulW(XorW(t1, ShrW(t1, 7)), OrSmall(t1, 61))))
      r  == XorW(t2, ShrW(t2, 14))
  IN  [a |-> a1, num |-> r]


----------------------------------------------------------------------------
(* Units and the process catalogue                                         *)

\* metres -> length units (half metres)
M(m) == 2 * m

Max(a, b) == IF a >= b THEN a ELSE b
Min(a, b) == IF a <= b THEN a ELSE b

\* PROCESS_TYPES, sizes in metres
PROCESS_TYPES ==
  << [id |-> "receiving",  w |-> 40, h |-> 40],
     [id |-> "processing", w |-> 60, h |-> 80],
     [id |-> "packaging",  w |-> 50, h |-> 60],
     [id |-> "utilities",  w |-> 30, h |-> 30],
     [id |-> "warehouse",  w |-> 80, h |-> 120] >>

----------------------------------------------------------------------------
(* Planar geometry.  A site is [x0, y0, x1, y1, nx, ny]: the bounding box  *)
(* minus the open notch (nx, x1) x (ny, y1); nx = x1 and ny = y1 give a    *)
(* plain rectangle.  A rectangle or block is [x0, y0, x1, y1, type].       *)

\* turf.bbox
bbox(s) == [west |-> s.x0, south |-> s.y0, east |-> s.x1, north |-> s.y1]

\* turf.booleanPointInPolygon(pt, site): boundary points count as inside
booleanPointInPolygon(p, s) ==
  /\ s.x0 <= p[1] /\ p[1] <= s.x1
  /\ s.y0 <= p[2] /\ p[2] <= s.y1
  /\ ~(p[1] > s.nx /\ p[2] > s.ny)

\* turf.booleanWithin(rect, site): no point of rect outside the site
booleanWithin(r, s) ==
  /\ s.x0 <= r.x0 /\ r.x1 <= s.x1
  /\ s.y0 <= r.y0 /\ r.y1 <= s.y1
  /\ ~(r.x1 > s.nx /\ r.y1 > s.ny)

\* turf.pointGrid(bbox, step): the lattice is centred in the bounding box,
\* columns (x) outermost, rows (y) innermost.
pointGrid(b, step) ==
  LET width   == b.east - b.west
      height  == b.north - b.south
      columns == width \div step
      rows    == height \div step
      deltaX  == (width - columns * step) \div 2
      deltaY  == (height - rows * step) \div 2
  IN  [k \in 1..((columns + 1) * (rows + 1)) |->
         << b.west + deltaX + ((k - 1) \div (rows + 1)) * step,
            b.south + deltaY + ((k - 1) % (rows + 1)) * step >>]

\* gridCenters(sitePoly, stepMeters)
gridCenters(sitePoly, stepMeters) ==
  SelectSeq(pointGrid(bbox(sitePoly), M(stepMeters)),
            LAMBDA pt : booleanPointInPolygon(pt, sitePoly))

\* buildRect(center, width, height, rotationDeg, {type}): the width runs along
\* bearing rotationDeg (0 = north), the height along rotationDeg + 90.
buildRect(center, width, height, rotationDeg, type) ==
  LET alongNorth == (rotationDeg % 180) = 0
      halfX == IF alongNorth THEN M(height) \div 2 ELSE M(width) \div 2
      halfY == IF alongNorth THEN M(width) \div 2 ELSE M(height) \div 2
  IN  [x0 |-> center[1] - halfX, y0 |-> center[2] - halfY,
       x1 |-> center[1] + halfX, y1 |-> center[2] + halfY, type |-> type]

\* squared gap between a rectangle and the notch of a site
NotchGap2(r, s) ==
  LET dx == Max(0, s.nx - r.x1)
      dy == Max(0, s.ny - r.y1)
  IN  dx * dx + dy * dy

HasNotch(s) == s.nx < s.x1 /\ s.ny < s.y1

\* turf.buffer(site, -d): the points at least d from the outside of the site,
\* kept as [site, d]; NULL (undefined) when nothing of positive area is left.
\* d is in length units.
InsetOf(s, d) ==
  LET corner == [x0 |-> s.x0 + d, y0 |-> s.y0 + d, x1 |-> s.x0 + d, y1 |-> s.y0 + d]
  IN  IF d <= 0 THEN [site |-> s, d |-> 0]
      ELSE IF s.x1 - s.x0 <= 2 * d \/ s.y1 - s.y0 <= 2 * d THEN NULL
      ELSE IF HasNotch(s) /\ NotchGap2(corner, s) <= d * d THEN NULL
      ELSE [site |-> s, d |-> d]

\* a containment test that forgets the clearance d
WithinInsetNoClearance(r, inset) == booleanWithin(r, inset.site)

\* turf.booleanWithin(rect, inset)
WithinInset(r, inset) ==
  LET s == inset.site
      d == inset.d
  IN  /\ booleanWithin(r, s)
      /\ s.x0 + d <= r.x0 /\ r.x1 <= s.x1 - d
      /\ s.y0 + d <= r.y0 /\ r.y1 <= s.y1 - d
      /\ (HasNotch(s) /\ d > 0) => NotchGap2(r, s) >= d * d

----------------------------------------------------------------------------
(* generateBlocks                                                          *)

\* (rng() - 0.5) * jitter, in length units, rounded down to a whole unit;
\* num is the 32-bit numerator of rng().
JitterOffset(num, jitter) ==
  LET J == M(jitter)
  IN  ((num[1] * J + ((num[2] * J) \div 65536)) \div 65536) - jitter

\* a generator shared by all calls: the state the last call left behind
StaleRng(seed) == gSt.rng

\* mulberry32(seed ?? 1): the captured state of a new generator
FreshRng(seed) == WordOf(IF seed = NULL THEN 1 ELSE Val(seed))

\* Math.max(5, maxTypeW + aisleWidth); Math.max() of no types is -Infinity
StepOf(types, aisleWidth) ==
  IF types = <<>> THEN 5
  ELSE LET maxTypeW == CHOOSE w \in {types[i].w : i \in 1..Len(types)} :
                         \A i \in 1..Len(types) : types[i].w <= w
       IN  Max(5, maxTypeW + aisleWidth)

\* number of (candidate centre, type) pairs of the two nested loops
NPairs(a, st) == Len(st.centers) * Len(a.types)

\* JavaScript truthiness of a number or null
Truthy(v) == v # NULL /\ Val(v) # 0

\* a cap test that is late by one
CapReachedLate(cap, count) == Truthy(cap) /\ count > Val(cap)

\* a cap test that fires one block early
CapReachedEarly(cap, count) == Truthy(cap) /\ count + 1 >= Val(cap)

\* a cap test that treats 0 as a cap
CapReachedUnlessNull(cap, count) == cap # NULL /\ count >= Val(cap)

\* maxBlocks && count >= maxBlocks
CapReached(cap, count) == Truthy(cap) /\ count >= Val(cap)

\* Entry of generateBlocks: the early return for no site, else the new rng.
GenEnter(a, st) ==
  IF a.sitePolygon = NULL
  THEN [pc |-> "done", k |-> 0, rng |-> st.rng, centers |-> <<>>, out |-> <<>>,
        count |-> 0, last |-> "nosite"]
  ELSE [pc |-> "loop", k |-> 0, rng |-> FreshRng(a.seed),
        centers |-> gridCenters(Val(a.sitePolygon), StepOf(a.types, a.aisleWidth)),
        out |-> <<>>, count |-> 0, last |-> "none"]

\* a loop body that stays on a rejected pair, to try it with the next offset
GenVisitRetry(a, st) ==
  LET nT      == Len(a.types)
      center  == st.centers[(st.k \div nT) + 1]
      t       == a.types[(st.k % nT) + 1]
      d1      == mulberry32(st.rng)
      d2      == mulberry32(d1.a)
      jw      == JitterOffset(d1.num, a.jitter)
      jh      == JitterOffset(d2.num, a.jitter)
      jCenter == <<center[1] + jw, center[2] + jh>>
      rect    == buildRect(jCenter, t.w, t.h, a.rotation, t.id)
      poly    == Val(a.sitePolygon)
      inset   == InsetOf(poly, M(a.aisleWidth) \div 2)
      again   == [st EXCEPT !.rng = d2.a]
      next    == [st EXCEPT !.k = st.k + 1, !.rng = d2.a]
  IN  IF ~booleanWithin(rect, poly) THEN [again EXCEPT !.last = "outside"]
      ELSE IF inset = NULL THEN [again EXCEPT !.last = "noinset"]
      ELSE IF ~WithinInset(rect, inset) THEN [again EXCEPT !.last = "tight"]
      ELSE LET pushed == [next EXCEPT !.out = Append(st.out, rect),
                                      !.count = st.count + 1,
                                      !.last = "pushed"]
           IN  IF CapReached(a.maxBlocks, pushed.count)
               THEN [pushed EXCEPT !.pc = "done"]
               ELSE pushed

\* One pass through the body of the inner loop, for pair number st.k
\* (centre st.k \div #types, type st.k % #types).
GenVisit(a, st) ==
  LET nT      == Len(a.types)
      center  == st.centers[(st.k \div nT) + 1]
      t       == a.types[(st.k % nT) + 1]
      d1      == mulberry32(st.rng)
      d2      == mulberry32(d1.a)
      jw      == JitterOffset(d1.num, a.jitter)
      jh      == JitterOffset(d2.num, a.jitter)
      jCenter == <<center[1] + jw, center[2] + jh>>
      rect    == buildRect(jCenter, t.w, t.h, a.rotation, t.id)
      poly    == Val(a.sitePolygon)
      inset   == InsetOf(poly, M(a.aisleWidth) \div 2)
      next    == [st EXCEPT !.k = st.k + 1, !.rng = d2.a]
  IN  IF ~booleanWithin(rect, poly) THEN [next EXCEPT !.last = "outside"]
      ELSE IF inset = NULL THEN [next EXCEPT !.last = "noinset"]
      ELSE IF ~WithinInset(rect, inset) THEN [next EXCEPT !.last = "tight"]
      ELSE LET pushed == [next EXCEPT !.out = Append(st.out, rect),
                                      !.count = st.count + 1,
                                      !.last = "pushed"]
           IN  IF CapReached(a.maxBlocks, pushed.count)
               THEN [pushed EXCEPT !.pc = "done"]
               ELSE pushed

\* One step of a running call: the next pair, or the return after the loops.
GenStep(a, st) ==
  IF st.k < NPairs(a, st) THEN GenVisit(a, st) ELSE [st EXCEPT !.pc = "done"]

RECURSIVE GenRun(_, _)
GenRun(a, st) == IF st.pc = "done" THEN st ELSE GenRun(a, GenStep(a, st))

\* generateBlocks(args): the features of the returned collection
generateBlocks(a) ==
  GenRun(a, GenEnter(a, [pc |-> "idle", k |-> 0, rng |-> <<0, 0>>,
                         centers |-> <<>>, out |-> <<>>, count |-> 0,
                         last |-> "none"])).out

----------------------------------------------------------------------------
(* validateLayout.  An issue is [kind, a, b, area]: a and b are the 0-based *)
(* block indices (-1 when the issue has none), area is in square units for *)
(* a clash and -1 otherwise.  A call either returns a list or throws.      *)

Returned(v) == [thrown |-> FALSE, value |-> v]
Thrown == [thrown |-> TRUE, value |-> <<>>]

\* squared gap between two rectangles
RectGap2(a, b) ==
  LET dx == Max(0, Max(a.x0 - b.x1, b.x0 - a.x1))
      dy == Max(0, Max(a.y0 - b.y1, b.y0 - a.y1))
  IN  dx * dx + dy * dy

\* turf.booleanIntersects(a, b): the closed rectangles share a point
booleanIntersects(a, b) == RectGap2(a, b) = 0

\* turf.intersect(a, b): the common rectangle, or NULL when the common part
\* has no area
intersect(a, b) ==
  LET x0 == Max(a.x0, b.x0)
      x1 == Min(a.x1, b.x1)
      y0 == Max(a.y0, b.y0)
      y1 == Min(a.y1, b.y1)
  IN  IF x0 < x1 /\ y0 < y1
      THEN Some([x0 |-> x0, y0 |-> y0, x1 |-> x1, y1 |-> y1])
      ELSE NULL

\* turf.area of a rectangle
area(r) == (r.x1 - r.x0) * (r.y1 - r.y0)

\* the 0-based loop indices lo, lo + 1, .., hi in order
Range(lo, hi) == [k \in 1..Max(0, hi - lo + 1) |-> lo + k - 1]

RECURSIVE FlatMap(_, _)
FlatMap(Op(_), seq) ==
  IF seq = <<>> THEN <<>> ELSE Op(Head(seq)) \o FlatMap(Op, Tail(seq))

\* (1) clash detection
ClashIssues(bs) ==
  LET n == Len(bs)
      row(i) ==
        LET one(j) ==
              LET a == bs[i + 1]
                  b == bs[j + 1]
              IN  IF booleanIntersects(a, b) /\ intersect(a, b) # NULL
                  THEN <<[kind |-> "clash", a |-> i, b |-> j,
                          area |-> area(Val(intersect(a, b)))]>>
                  ELSE <<>>
        IN  FlatMap(one, Range(i + 1, n - 1))
  IN  FlatMap(row, Range(0, n - 1))

\* an aisle check with the comparison turned around
AisleIssuesReversed(bs, minAisle) ==
  LET r == M(minAisle)
      n == Len(bs)
      row(i) ==
        LET one(j) ==
              IF RectGap2(bs[i + 1], bs[j + 1]) > 4 * r * r
              THEN <<[kind |-> "aisle", a |-> i, b |-> j, area |-> -1]>>
              ELSE <<>>
        IN  FlatMap(one, Range(i + 1, n - 1))
  IN  IF minAisle > 0 THEN FlatMap(row, Range(0, n - 1)) ELSE <<>>

\* an aisle check without the minAisle > 0 gate: the buffers are then the
\* blocks themselves
AisleIssuesUngated(bs, minAisle) ==
  LET r == M(minAisle)
      n == Len(bs)
      row(i) ==
        LET one(j) ==
              IF \/ RectGap2(bs[i + 1], bs[j + 1]) < 4 * r * r
                 \/ intersect(bs[i + 1], bs[j + 1]) # NULL
              THEN <<[kind |-> "aisle", a |-> i, b |-> j, area |-> -1]>>
              ELSE <<>>
        IN  FlatMap(one, Range(i + 1, n - 1))
  IN  FlatMap(row, Range(0, n - 1))

\* an aisle check that leaves out the pairs that touch or overlap
AisleIssuesApartOnly(bs, minAisle) ==
  LET r == M(minAisle)
      n == Len(bs)
      row(i) ==
        LET one(j) ==
              IF /\ RectGap2(bs[i + 1], bs[j + 1]) < 4 * r * r
                 /\ RectGap2(bs[i + 1], bs[j + 1]) > 0
              THEN <<[kind |-> "aisle", a |-> i, b |-> j, area |-> -1]>>
              ELSE <<>>
        IN  FlatMap(one, Range(i + 1, n - 1))
  IN  IF minAisle > 0 THEN FlatMap(row, Range(0, n - 1)) ELSE <<>>

\* (2) minimum aisle: the blocks buffered by minAisle intersect in a region
\* of positive area when they are less than 2 * minAisle apart
AisleIssues(bs, minAisle) ==
  LET r == M(minAisle)
      n == Len(bs)
      row(i) ==
        LET one(j) ==
              IF RectGap2(bs[i + 1], bs[j + 1]) < 4 * r * r
              THEN <<[kind |-> "aisle", a |-> i, b |-> j, area |-> -1]>>
              ELSE <<>>
        IN  FlatMap(one, Range(i + 1, n - 1))
  IN  IF minAisle > 0 THEN FlatMap(row, Range(0, n - 1)) ELSE <<>>

\* (3) boundary clearance; turf.buffer(null) throws, and so does
\* booleanWithin(f, undefined) when the site shrinks to nothing
BoundaryCheck(sitePolygon, bs, bc) ==
  IF ~(bc > 0) THEN Returned(<<>>)
  ELSE IF sitePolygon = NULL THEN Thrown
  ELSE LET inset == InsetOf(Val(sitePolygon), M(bc))
           one(i) == IF ~WithinInset(bs[i + 1], inset)
                     THEN <<[kind |-> "boundary", a |-> i, b |-> -1, area |-> -1]>>
                     ELSE <<>>
       IN  IF bs = <<>> THEN Returned(<<>>)
           ELSE IF inset = NULL THEN Thrown
           ELSE Returned(FlatMap(one, [k \in 1..Len(bs) |-> k - 1]))

\* turf.centroid(site): the mean of the vertices, as [sx, sy, n] with the
\* centroid at (sx / n, sy / n)
centroid(s) ==
  IF HasNotch(s)
  THEN [sx |-> 2 * s.x0 + 2 * s.x1 + 2 * s.nx, sy |-> 2 * s.y0 + 2 * s.y1 + 2 * s.ny,
        n |-> 6]
  ELSE [sx |-> 2 * s.x0 + 2 * s.x1, sy |-> 2 * s.y0 + 2 * s.y1, n |-> 4]

\* turf.booleanWithin(turf.circle(c, radius), site); radius in length units
CircleWithin(c, radius, s) ==
  LET gx == Max(0, c.n * s.nx - c.sx)
      gy == Max(0, c.n * s.ny - c.sy)
  IN  /\ c.n * s.x0 <= c.sx - c.n * radius /\ c.sx + c.n * radius <= c.n * s.x1
      /\ c.n * s.y0 <= c.sy - c.n * radius /\ c.sy + c.n * radius <= c.n * s.y1
      /\ HasNotch(s) => gx * gx + gy * gy >= c.n * c.n * radius * radius

\* (4) truck turning; turnRadius is carried in length units, since the default
\* of 12.5 m is not a whole number of metres.  turf.centroid(null) throws.
TurningCheck(sitePolygon, tr) ==
  IF ~(tr > 0) THEN Returned(<<>>)
  ELSE IF sitePolygon = NULL THEN Thrown
  ELSE IF ~CircleWithin(centroid(Val(sitePolygon)), tr, Val(sitePolygon))
       THEN Returned(<<[kind |-> "turning", a |-> -1, b |-> -1, area |-> -1]>>)
       ELSE Returned(<<>>)

ValArgs(sitePolygon, bs, minAisle, bc, tr) ==
  [site |-> sitePolygon, blocks |-> bs, minAisle |-> minAisle,
   boundaryClearance |-> bc, turnRadius |-> tr]

\* a validateLayout that runs the boundary check before the clash check
ValidateBoundaryFirst(v) ==
  LET clash    == ClashIssues(v.blocks)
      aisles   == AisleIssues(v.blocks, v.minAisle)
      boundary == BoundaryCheck(v.site, v.blocks, v.boundaryClearance)
      turning  == TurningCheck(v.site, v.turnRadius)
  IN  IF boundary.thrown \/ turning.thrown THEN Thrown
      ELSE Returned(boundary.value \o clash \o aisles \o turning.value)

\* validateLayout({ site, blocks, minAisle, boundaryClearance, turnRadius })
validateLayout(v) ==
  LET clash    == ClashIssues(v.blocks)
      aisles   == AisleIssues(v.blocks, v.minAisle)
      boundary == BoundaryCheck(v.site, v.blocks, v.boundaryClearance)
      turning  == TurningCheck(v.site, v.turnRadius)
  IN  IF boundary.thrown \/ turning.thrown THEN Thrown
      ELSE Returned(clash \o aisles \o boundary.value \o turning.value)

----------------------------------------------------------------------------
(* generateHeatSquares                                                     *)

\* the largest n with n * n <= x, for 0 <= lo * lo <= x < hi * hi
RECURSIVE SqrtBetween(_, _, _)
SqrtBetween(x, lo, hi) ==
  IF hi - lo <= 1 THEN lo
  ELSE LET mid == (lo + hi) \div 2
       IN  IF mid * mid <= x THEN SqrtBetween(x, mid, hi) ELSE SqrtBetween(x, lo, mid)

Isqrt(x) == SqrtBetween(x, 0, 32768)

\* turf.squareGrid(bbox, cell): whole cells, centred in the bounding box,
\* columns outermost; each cell is given by its south-west corner
squareGrid(b, cell) ==
  LET width   == b.east - b.west
      height  == b.north - b.south
      columns == width \div cell
      rows    == height \div cell
      deltaX  == (width - columns * cell) \div 2
      deltaY  == (height - rows * cell) \div 2
  IN  [k \in 1..(columns * rows) |->
         LET x == b.west + deltaX + ((k - 1) \div rows) * cell
             y == b.south + deltaY + ((k - 1) % rows) * cell
         IN  [x0 |-> x, y0 |-> y, x1 |-> x + cell, y1 |-> y + cell]]

\* squared distance from the centre of a cell to a source, in quarter units
CenterDist2(cell, src) ==
  LET dx == cell.x0 + cell.x1 - 2 * src[1]
      dy == cell.y0 + cell.y1 - 2 * src[2]
  IN  dx * dx + dy * dy

\* 1 / (dist_km + 0.001) = 1000 / (dist_m + 1), kept in thousandths and
\* rounded down; d2 is the squared distance in quarter units (1/4 of 0.5 m)
HeatValue(d2) == 4000000 \div (Isqrt(d2) + 4)

\* the farthest instead of the nearest
MaxOf(S) == CHOOSE m \in S : \A x \in S : m >= x

MinOf(S) == CHOOSE m \in S : \A x \in S : m <= x

\* generateHeatSquares(site, sources, cellM)
generateHeatSquares(sitePolygon, sources, cellM) ==
  IF sitePolygon = NULL \/ Len(sources) = 0 THEN <<>>
  ELSE LET grid == squareGrid(bbox(Val(sitePolygon)), M(cellM))
           kept == SelectSeq(grid, LAMBDA c :
                     booleanPointInPolygon(<<(c.x0 + c.x1) \div 2, (c.y0 + c.y1) \div 2>>,
                                           Val(sitePolygon)))
       IN  [k \in 1..Len(kept) |->
              [cell  |-> kept[k],
               value |-> HeatValue(MinOf({CenterDist2(kept[k], sources[i]) :
                                            i \in 1..Len(sources)}))]]

----------------------------------------------------------------------------
(* Inputs of the generator                                                 *)

MaxSeed == 2
MaxCalls == 3
MaxCap == 2
MaxJitter == 30

\* a 200 m x 160 m rectangle
SiteRect ==
  [x0 |-> 0, y0 |-> 0, x1 |-> M(200), y1 |-> M(160), nx |-> M(200), ny |-> M(160)]

\* a 240 m x 240 m square without its north-east 100 m x 100 m corner
SiteL ==
  [x0 |-> 0, y0 |-> 0, x1 |-> M(240), y1 |-> M(240), nx |-> M(140), ny |-> M(140)]

Sites == {Some(SiteRect), Some(SiteL)}

\* the enabled types, in catalogue order
TypeLists ==
  { <<>>,
    <<PROCESS_TYPES[1]>>,
    <<PROCESS_TYPES[4]>>,
    <<PROCESS_TYPES[1], PROCESS_TYPES[4]>>,
    <<PROCESS_TYPES[2]>>,
    <<PROCESS_TYPES[5]>> }

Aisles == {0, 20, 200}
Rotations == {0, 90}
Seeds == {NULL} \cup {Some(n) : n \in 1..MaxSeed}
Jitters == {0, MaxJitter}
Caps == {NULL} \cup {Some(n) : n \in 0..MaxCap}

GenArgs(sitePolygon, types, aisleWidth, rotation, seed, jitter, cap) ==
  [sitePolygon |-> sitePolygon, types |-> types, aisleWidth |-> aisleWidth,
   rotation |-> rotation, seed |-> seed, jitter |-> jitter, maxBlocks |-> cap]

GenInputs ==
  { GenArgs(s, ts, aw, rot, sd, jit, cap) :
      s \in Sites \cup {NULL}, ts \in TypeLists, aw \in Aisles, rot \in Rotations,
      sd \in Seeds, jit \in Jitters, cap \in Caps }

\* the inputs of the repeated-call specification
DetInputs ==
  { GenArgs(Some(SiteRect), ts, 20, 0, sd, jit, cap) :
      ts \in {<<PROCESS_TYPES[1]>>, <<PROCESS_TYPES[1], PROCESS_TYPES[4]>>},
      sd \in Seeds, jit \in Jitters, cap \in {Some(0), Some(1), Some(MaxCap)} }

IdleSt ==
  [pc |-> "idle", k |-> 0, rng |-> <<0, 0>>, centers |-> <<>>, out |-> <<>>,
   count |-> 0, last |-> "none"]

----------------------------------------------------------------------------
(* Snapping.  A coordinate [lng, lat] is a pair of whole numbers of ticks,  *)
(* a tick being the angle that spans a quarter of a metre along a          *)
(* meridian.  snapLngLat turns ticks into metres with the scale measured   *)
(* at the origin, rounds, and turns the metres back into ticks.            *)

Abs(x) == IF x < 0 THEN -x ELSE x

\* Math.round(n / d) for d > 0: the nearest integer, halves rounded up
Round(n, d) == (2 * n + d) \div (2 * d)

\* ticks per metre northwards, 1 / (mPerDegLat * degrees per tick)
TicksPerMetreLat(origin) == 4

\* ticks per metre eastwards, 1 / (mPerDegLng * degrees per tick): a degree
\* of longitude is half as long at 60 degrees north as on the equator
TicksPerMetreLng(origin) == IF origin[2] = 0 THEN 4 ELSE 8

\* snapLngLat([lng, lat], spacingM, origin)
snapLngLat(c, spacingM, origin) ==
  LET kx == TicksPerMetreLng(origin)
      ky == TicksPerMetreLat(origin)
      sx == Round(c[1] - origin[1], kx * spacingM) * spacingM
      sy == Round(c[2] - origin[2], ky * spacingM) * spacingM
      snappedLng == origin[1] + sx * kx
      snappedLat == origin[2] + sy * ky
  IN  <<snappedLng, snappedLat>>

\* a callback that squares every corner, whatever the orthogonal flag
SnapVertexSquared(linear, i, spacingM, origin, ortho) ==
  LET snapped == snapLngLat(linear[i], spacingM, origin)
  IN  IF i = 1 THEN snapped
      ELSE LET prev == linear[i - 1]
               dx == snapped[1] - prev[1]
               dy == snapped[2] - prev[2]
           IN  IF Abs(dx) > Abs(dy) THEN <<snapped[1], prev[2]>>
               ELSE <<prev[1], snapped[2]>>

\* the callback of linear.map((c, i) => ...): prev is the vertex of the input
\* ring, linear[i - 1]
SnapVertex(linear, i, spacingM, origin, ortho) ==
  LET snapped == snapLngLat(linear[i], spacingM, origin)
  IN  IF ~ortho \/ i = 1 THEN snapped
      ELSE LET prev == linear[i - 1]
               dx == snapped[1] - prev[1]
               dy == snapped[2] - prev[2]
           IN  IF Abs(dx) > Abs(dy) THEN <<snapped[1], prev[2]>>
               ELSE <<prev[1], snapped[2]>>

SnapLinear(linear, spacingM, origin, ortho) ==
  [i \in 1..Len(linear) |-> SnapVertex(linear, i, spacingM, origin, ortho)]

\* a Polygon's coordinates are a sequence of linear rings, a MultiPolygon's a
\* sequence of such sequences, a LineString's a sequence of positions
Feature(type, coordinates) == [type |-> type, coordinates |-> coordinates]

\* snapFeatureToGrid(feature, spacingM, origin, orthogonal)
snapFeatureToGrid(feature, spacingM, origin, ortho) ==
  LET snapRing(ring) ==
        [k \in 1..Len(ring) |-> SnapLinear(ring[k], spacingM, origin, ortho)]
  IN  IF feature.type = "Polygon"
      THEN Feature("Polygon", snapRing(feature.coordinates))
      ELSE IF feature.type = "MultiPolygon"
      THEN Feature("MultiPolygon",
                   [p \in 1..Len(feature.coordinates) |->
                      snapRing(feature.coordinates[p])])
      ELSE feature

\* the linear rings of a feature
LinearRings(feature) ==
  IF feature.type = "Polygon"
  THEN {feature.coordinates[k] : k \in 1..Len(feature.coordinates)}
  ELSE IF feature.type = "MultiPolygon"
  THEN UNION {{feature.coordinates[p][k] : k \in 1..Len(feature.coordinates[p])} :
                p \in 1..Len(feature.coordinates)}
  ELSE {}

----------------------------------------------------------------------------
(* Initial values of the state outside the part a specification exercises  *)

NoCall == [fn |-> "none", args |-> <<>>]

CoreIdle ==
  /\ call = NoCall
  /\ ret = Returned(<<>>)
  /\ call0 = NoCall
  /\ ret0 = Returned(<<>>)

\* 12.5 m, in length units
DEFAULT_TRUCK_TURN_RADIUS == 25

\* App() and ControlSection() after construction
UiIdle ==
  /\ site = NULL
  /\ blocks = <<>>
  /\ validation = <<>>
  /\ layers = {}
  /\ aisle = 20
  /\ maxBlocks = 800
  /\ boundaryClearance = 5
  /\ turnRadius = DEFAULT_TRUCK_TURN_RADIUS
  /\ uiThrown = FALSE
  /\ snapGrid = TRUE
  /\ orthogonal = TRUE

----------------------------------------------------------------------------
(* generateBlocks, run step by step                                        *)

\* App: snapGrid = true, gridSize = 5, orthogonal = true; onCreated passes
\* the origin [0, 0]; nothing has been drawn
SnapArgs(feature, spacingM, origin, ortho) ==
  [feature |-> feature, spacingM |-> spacingM, origin |-> origin,
   orthogonal |-> ortho]

SnapIdle ==
  /\ snapArgs = SnapArgs(Feature("Polygon", <<>>), 5, <<0, 0>>, TRUE)
  /\ snapOut = NULL
  /\ snapOut2 = NULL

\* no core function has been called on objects in memory
MemIdle ==
  /\ heap = <<>>
  /\ heap0 = <<>>
  /\ memCall = NoCall
  /\ memRet = NULL

\* App: useState({mode: "flow", cell: 10, sources: [], squares:
\* featureCollection([]), adding: false}), and the click handler subscribed
\* by the first render's effect
InitialHeat ==
  [mode |-> "flow", cell |-> 10, sources |-> <<>>, squares |-> <<>>,
   adding |-> FALSE]

HeatIdle ==
  /\ heat = InitialHeat
  /\ clickHeat = InitialHeat

GenIdle ==
  /\ gArgs = GenArgs(NULL, <<>>, 0, 0, NULL, 0, NULL)
  /\ gSt = IdleSt
  /\ gCalls = 0
  /\ gFirst = NULL

GenInit == GenIdle /\ CoreIdle /\ UiIdle /\ SnapIdle /\ MemIdle /\ HeatIdle

\* a caller invokes generateBlocks(a)
GenCall(a) ==
  /\ gSt.pc = "idle"
  /\ gArgs' = a
  /\ gSt' = GenEnter(a, gSt)
  /\ gCalls' = gCalls + 1
  /\ UNCHANGED <<gFirst, coreVars, uiVars, snapVars, memVars, heatVars>>

\* a caller invokes generateBlocks(a) after an earlier call has returned
GenCallAgain(a) ==
  /\ gSt.pc = "done"
  /\ gCalls < MaxCalls
  /\ gArgs' = a
  /\ gSt' = GenEnter(a, gSt)
  /\ gCalls' = gCalls + 1
  /\ UNCHANGED <<gFirst, coreVars, uiVars, snapVars, memVars, heatVars>>

\* the body of the inner loop runs for the next (centre, type) pair
GenLoop ==
  /\ gSt.pc = "loop"
  /\ gSt.k < NPairs(gArgs, gSt)
  /\ gSt' = GenVisit(gArgs, gSt)
  /\ UNCHANGED <<gArgs, gCalls, gFirst, coreVars, uiVars, snapVars,
                 memVars, heatVars>>

\* both loops are exhausted: return turf.featureCollection(out)
GenReturn ==
  /\ gSt.pc = "loop"
  /\ gSt.k >= NPairs(gArgs, gSt)
  /\ gSt' = [gSt EXCEPT !.pc = "done"]
  /\ UNCHANGED <<gArgs, gCalls, gFirst, coreVars, uiVars, snapVars,
                 memVars, heatVars>>

\* the caller keeps the collection a call returned
GenRemember ==
  /\ gSt.pc = "done"
  /\ gFirst = NULL
  /\ gFirst' = Some([args |-> gArgs, out |-> gSt.out, n |-> gCalls])
  /\ UNCHANGED <<gArgs, gSt, gCalls, coreVars, uiVars, snapVars, memVars, heatVars>>

GenNext ==
  \/ \E a \in GenInputs : GenCall(a)
  \/ GenLoop
  \/ GenReturn

GenSpec == GenInit /\ [][GenNext]_vars

DetNext ==
  \/ \E a \in DetInputs : GenCall(a)
  \/ \E a \in DetInputs : GenCallAgain(a)
  \/ GenLoop
  \/ GenReturn
  \/ GenRemember

DetSpec == GenInit /\ [][DetNext]_vars

----------------------------------------------------------------------------
(* The core functions applied on their own to inputs drawn from small sets *)

MaxValBlocks == 2
MaxSources == 2

ValSites == {NULL, Some(SiteRect), Some(SiteL)}

\* 40 m x 40 m blocks placed by hand: a base block, one overlapping it, one
\* touching it, one 30 m away from it, and one on the west edge of the site
ValBlockSet ==
  { buildRect(<<M(50), M(50)>>, 40, 40, 0, "receiving"),
    buildRect(<<M(70), M(50)>>, 40, 40, 0, "receiving"),
    buildRect(<<M(90), M(50)>>, 40, 40, 0, "receiving"),
    buildRect(<<M(120), M(50)>>, 40, 40, 0, "receiving"),
    buildRect(<<M(20), M(100)>>, 40, 40, 0, "receiving") }

SeqsUpTo(S, n) == UNION {[1..k -> S] : k \in 0..n}

\* a layout of four blocks: the base block, the one overlapping it, the one
\* touching that, and the one on the west edge
SampleLayout ==
  << buildRect(<<M(50), M(50)>>, 40, 40, 0, "receiving"),
     buildRect(<<M(70), M(50)>>, 40, 40, 0, "receiving"),
     buildRect(<<M(90), M(50)>>, 40, 40, 0, "receiving"),
     buildRect(<<M(20), M(100)>>, 40, 40, 0, "receiving") >>

ValLayouts == SeqsUpTo(ValBlockSet, MaxValBlocks) \cup {SampleLayout}

MinAisles == {0, 10, 20}

ValInputs ==
  { ValArgs(s, bs, ma, bc, tr) :
      s \in ValSites, bs \in ValLayouts,
      ma \in MinAisles, bc \in {0, 5, 100},
      tr \in {0, DEFAULT_TRUCK_TURN_RADIUS, M(100)} }

HeatSourceSet == {<<M(20), M(20)>>, <<M(100), M(80)>>, <<M(180), M(140)>>}

HeatInputs ==
  { [site |-> s, sources |-> src, cellM |-> c] :
      s \in ValSites, src \in SeqsUpTo(HeatSourceSet, MaxSources), c \in {40, 80} }

CoreGenInputs ==
  { GenArgs(s, ts, 20, 0, Some(1), 0, Some(800)) :
      s \in ValSites, ts \in {<<>>, <<PROCESS_TYPES[1]>>} }

CallValidate(v) ==
  /\ call.fn = "none"
  /\ call' = [fn |-> "validateLayout", args |-> v]
  /\ ret' = validateLayout(v)
  /\ UNCHANGED <<call0, ret0, genVars, uiVars, snapVars, memVars, heatVars>>

CallHeat(h) ==
  /\ call.fn = "none"
  /\ call' = [fn |-> "generateHeatSquares", args |-> h]
  /\ ret' = Returned(generateHeatSquares(h.site, h.sources, h.cellM))
  /\ UNCHANGED <<call0, ret0, genVars, uiVars, snapVars, memVars, heatVars>>

CallGenerate(a) ==
  /\ call.fn = "none"
  /\ call' = [fn |-> "generateBlocks", args |-> a]
  /\ ret' = Returned(generateBlocks(a))
  /\ UNCHANGED <<call0, ret0, genVars, uiVars, snapVars, memVars, heatVars>>

\* validateLayout is called again for the same site with another minAisle,
\* or with the blocks cleared
CallValidateAgain(v) ==
  /\ call.fn = "validateLayout"
  /\ call0 = NoCall
  /\ v # call.args
  /\ call0' = call
  /\ ret0' = ret
  /\ call' = [fn |-> "validateLayout", args |-> v]
  /\ ret' = validateLayout(v)
  /\ UNCHANGED <<genVars, uiVars, snapVars, memVars, heatVars>>

CoreInit == GenIdle /\ CoreIdle /\ UiIdle /\ SnapIdle /\ MemIdle /\ HeatIdle

CoreNext ==
  \/ \E v \in ValInputs : CallValidate(v)
  \/ \E ma \in MinAisles : CallValidateAgain([call.args EXCEPT !.minAisle = ma])
  \/ CallValidateAgain([call.args EXCEPT !.blocks = <<>>])
  \/ \E h \in HeatInputs : CallHeat(h)
  \/ \E a \in CoreGenInputs : CallGenerate(a)

CoreSpec == CoreInit /\ [][CoreNext]_vars

----------------------------------------------------------------------------
(* The UI: App state, the ControlSection buttons and fields, and the       *)
(* MapWithDraw handlers.  Rotation, seed, jitter and the type checkboxes   *)
(* stay at their initial values (0, 1, 0, all enabled).                    *)

\* what the draw tools can produce: two polygons and a polyline
Shapes ==
  { [id |-> "polyA", type |-> "Polygon", geom |-> SiteRect],
    [id |-> "polyB", type |-> "Polygon", geom |-> SiteL],
    [id |-> "line",  type |-> "LineString", geom |-> SiteRect] }

\* a layer of the FeatureGroup: the shape, how it came in, and whether it is
\* a result of snapFeatureToGrid
Layer(sh, via, snapped) ==
  [id |-> sh.id, type |-> sh.type, geom |-> sh.geom, via |-> via,
   snapped |-> snapped]

\* onCreated: the drawn shape joins the FeatureGroup, replaced by its snapped
\* copy if snapGrid || orthogonal; the popup is bound to it
OnCreated(sh) ==
  /\ \A l \in layers : ~(l.id = sh.id /\ l.via = "draw")
  /\ layers' = layers \cup {Layer(sh, "draw", snapGrid \/ orthogonal)}
  /\ uiThrown' = FALSE
  /\ UNCHANGED <<site, blocks, validation, aisle, maxBlocks, boundaryClearance,
                 turnRadius, snapGrid, orthogonal, genVars, coreVars,
                 snapVars, memVars, heatVars>>

\* the layout:import listener: every layer of L.geoJSON(geo) is added to the
\* FeatureGroup as it is, without a popup
OnImport(sh) ==
  /\ \A l \in layers : ~(l.id = sh.id /\ l.via = "import")
  /\ layers' = layers \cup {Layer(sh, "import", FALSE)}
  /\ uiThrown' = FALSE
  /\ UNCHANGED <<site, blocks, validation, aisle, maxBlocks, boundaryClearance,
                 turnRadius, snapGrid, orthogonal, genVars, coreVars,
                 snapVars, memVars, heatVars>>

\* the popup's "Set as Site" button, which drawn shapes have
SetAsSite(sh) ==
  /\ sh \in layers
  /\ sh.via = "draw"
  /\ site' = IF sh.type = "Polygon" THEN Some(sh.geom) ELSE site
  /\ uiThrown' = FALSE
  /\ UNCHANGED <<blocks, validation, layers, aisle, maxBlocks, boundaryClearance,
                 turnRadius, snapGrid, orthogonal, genVars, coreVars,
                 snapVars, memVars, heatVars>>

\* onEdited: shapes were edited with the edit toolbar
OnEdited ==
  /\ layers # {}
  /\ validation' = IF Len(validation) # 0 THEN <<>> ELSE validation
  /\ uiThrown' = FALSE
  /\ UNCHANGED <<site, blocks, layers, aisle, maxBlocks, boundaryClearance,
                 turnRadius, snapGrid, orthogonal, genVars, coreVars,
                 snapVars, memVars, heatVars>>

\* an onDeleted that clears the site and the validation but keeps the blocks
OnDeletedKeepsBlocks(gone) ==
  /\ gone # {} /\ gone \subseteq layers
  /\ layers' = layers \ gone
  /\ site' = NULL
  /\ validation' = <<>>
  /\ uiThrown' = FALSE
  /\ UNCHANGED <<blocks, aisle, maxBlocks, boundaryClearance, turnRadius,
                 snapGrid, orthogonal, genVars, coreVars,
                 snapVars, memVars, heatVars>>

\* onDeleted: shapes were removed with the edit toolbar
OnDeleted(gone) ==
  /\ gone # {} /\ gone \subseteq layers
  /\ layers' = layers \ gone
  /\ site' = NULL
  /\ blocks' = <<>>
  /\ validation' = <<>>
  /\ uiThrown' = FALSE
  /\ UNCHANGED <<aisle, maxBlocks, boundaryClearance, turnRadius, snapGrid,
                 orthogonal, genVars, coreVars,
                 snapVars, memVars, heatVars>>

\* the values the Aisle and Max Blocks fields are set to
UiAisles == {0, 20}
UiCaps == {0, 800}

\* the arguments Generate Layout can pass
UiGenArgs(sitePolygon, aisleWidth, cap) ==
  GenArgs(sitePolygon, PROCESS_TYPES, aisleWidth, 0, Some(1), 0, Some(cap))

\* generateBlocks on each of them, computed once
UiGenerated ==
  [a \in {UiGenArgs(s, aw, cap) :
            s \in {Some(sh.geom) : sh \in Shapes} \cup {NULL},
            aw \in UiAisles, cap \in UiCaps}
     |-> generateBlocks(a)] @@ <<>>

\* a Generate Layout button that is never disabled
AlwaysEnabled == TRUE

\* const canGenerate = !!site
canGenerate == site # NULL

\* the Generate Layout button, disabled unless canGenerate
GenerateLayout ==
  /\ canGenerate
  /\ blocks' = UiGenerated[UiGenArgs(site, aisle, maxBlocks)]
  /\ uiThrown' = FALSE
  /\ UNCHANGED <<site, validation, layers, aisle, maxBlocks, boundaryClearance,
                 turnRadius, snapGrid, orthogonal, genVars, coreVars,
                 snapVars, memVars, heatVars>>

\* the Clear Blocks button
ClearBlocks ==
  /\ blocks' = <<>>
  /\ uiThrown' = FALSE
  /\ UNCHANGED <<site, validation, layers, aisle, maxBlocks, boundaryClearance,
                 turnRadius, snapGrid, orthogonal, genVars, coreVars,
                 snapVars, memVars, heatVars>>

\* the Run Checks button; when validateLayout throws, setValidation is not
\* reached
RunChecks ==
  LET res == validateLayout(ValArgs(site, blocks, aisle, boundaryClearance, turnRadius))
  IN  /\ validation' = IF res.thrown THEN validation ELSE res.value
      /\ uiThrown' = res.thrown
      /\ UNCHANGED <<site, blocks, layers, aisle, maxBlocks, boundaryClearance,
                     turnRadius, snapGrid, orthogonal, genVars, coreVars,
                 snapVars, memVars, heatVars>>

\* the "Snap to grid" and "Ortho edges" checkboxes
SetSnapGrid(v) ==
  /\ snapGrid' = v
  /\ uiThrown' = FALSE
  /\ UNCHANGED <<site, blocks, validation, layers, aisle, maxBlocks,
                 boundaryClearance, turnRadius, orthogonal, genVars, coreVars,
                 snapVars, memVars, heatVars>>

SetOrthogonal(v) ==
  /\ orthogonal' = v
  /\ uiThrown' = FALSE
  /\ UNCHANGED <<site, blocks, validation, layers, aisle, maxBlocks,
                 boundaryClearance, turnRadius, snapGrid, genVars, coreVars,
                 snapVars, memVars, heatVars>>

\* the number fields: setX(Number(e.target.value) || 0)
SetAisle(v) ==
  /\ aisle' = v
  /\ uiThrown' = FALSE
  /\ UNCHANGED <<site, blocks, validation, layers, maxBlocks, boundaryClearance,
                 turnRadius, snapGrid, orthogonal, genVars, coreVars,
                 snapVars, memVars, heatVars>>

SetMaxBlocks(v) ==
  /\ maxBlocks' = v
  /\ uiThrown' = FALSE
  /\ UNCHANGED <<site, blocks, validation, layers, aisle, boundaryClearance,
                 turnRadius, snapGrid, orthogonal, genVars, coreVars,
                 snapVars, memVars, heatVars>>

SetBoundaryClearance(v) ==
  /\ boundaryClearance' = v
  /\ uiThrown' = FALSE
  /\ UNCHANGED <<site, blocks, validation, layers, aisle, maxBlocks, turnRadius,
                 snapGrid, orthogonal, genVars, coreVars, snapVars,
                 memVars, heatVars>>

SetTurnRadius(v) ==
  /\ turnRadius' = v
  /\ uiThrown' = FALSE
  /\ UNCHANGED <<site, blocks, validation, layers, aisle, maxBlocks,
                 boundaryClearance, snapGrid, orthogonal, genVars,
                 coreVars, snapVars, memVars, heatVars>>

Init == GenIdle /\ CoreIdle /\ UiIdle /\ SnapIdle /\ MemIdle /\ HeatIdle

Next ==
  \/ \E sh \in Shapes : OnCreated(sh)
  \/ \E l \in layers : SetAsSite(l)
  \/ OnEdited
  \/ \E gone \in SUBSET layers : OnDeleted(gone)
  \/ GenerateLayout
  \/ ClearBlocks
  \/ RunChecks
  \/ \E v \in UiAisles : SetAisle(v)
  \/ \E v \in UiCaps : SetMaxBlocks(v)
  \/ \E v \in {0, 5} : SetBoundaryClearance(v)
  \/ \E v \in {0, DEFAULT_TRUCK_TURN_RADIUS} : SetTurnRadius(v)

Spec == Init /\ [][Next]_vars

\* shapes entering the map: drawing, importing, the two checkboxes, and what
\* can then be done with the layers
DrawNext ==
  \/ \E sh \in Shapes : OnCreated(sh)
  \/ \E sh \in Shapes : OnImport(sh)
  \/ \E l \in layers : SetAsSite(l)
  \/ OnEdited
  \/ \E gone \in SUBSET layers : OnDeleted(gone)
  \/ \E v \in BOOLEAN : SetSnapGrid(v)
  \/ \E v \in BOOLEAN : SetOrthogonal(v)

DrawSpec == Init /\ [][DrawNext]_vars

----------------------------------------------------------------------------
(* The heat panel.  HeatmapSection's handlers close over the heat of the   *)
(* render that made them, and React renders anew as soon as setHeat has    *)
(* been called, so they see the current heat.  The map click handler is    *)
(* subscribed by an effect with heat among its dependencies: it closes     *)
(* over the heat of the render whose effect subscribed it, and stays       *)
(* subscribed until React runs the effect of a later render.               *)

MaxHeatSources == 2

\* where the map is clicked
ClickPoints == {<<M(100), M(80)>>}

\* the values the Cell (m) field is set to
HeatCells == {10, 40}

\* the select: setHeat({ ...heat, mode })
HeatSetMode(v) ==
  /\ heat' = [heat EXCEPT !.mode = v]
  /\ UNCHANGED <<clickHeat, genVars, coreVars, uiVars, snapVars, memVars>>

\* the Cell (m) field: setHeat({ ...heat, cell: Number(value) || 1 })
HeatSetCell(v) ==
  /\ heat' = [heat EXCEPT !.cell = v]
  /\ UNCHANGED <<clickHeat, genVars, coreVars, uiVars, snapVars, memVars>>

\* the Add Sources button: setHeat({ ...heat, adding: !heat.adding })
HeatToggleAdding ==
  /\ heat' = [heat EXCEPT !.adding = ~heat.adding]
  /\ UNCHANGED <<clickHeat, genVars, coreVars, uiVars, snapVars, memVars>>

\* the Generate Heat button
HeatGenerate ==
  /\ heat' = IF site = NULL \/ Len(heat.sources) = 0 THEN heat
             ELSE [heat EXCEPT !.squares =
                                 generateHeatSquares(site, heat.sources, heat.cell)]
  /\ UNCHANGED <<clickHeat, genVars, coreVars, uiVars, snapVars, memVars>>

\* the Clear Heat button
HeatClear ==
  /\ heat' = [mode |-> "flow", cell |-> 10, sources |-> <<>>, squares |-> <<>>,
              adding |-> FALSE]
  /\ UNCHANGED <<clickHeat, genVars, coreVars, uiVars, snapVars, memVars>>

\* onClick, the subscribed map click handler, for a click at ll
MapClick(ll) ==
  /\ Len(clickHeat.sources) < MaxHeatSources
  /\ heat' = IF ~clickHeat.adding THEN heat
             ELSE [clickHeat EXCEPT !.sources = Append(clickHeat.sources, ll)]
  /\ UNCHANGED <<clickHeat, genVars, coreVars, uiVars, snapVars, memVars>>

\* the effect of the render of the current heat: the old handler is taken
\* off the map and one closing over the current heat is subscribed
Resubscribe ==
  /\ clickHeat # heat
  /\ clickHeat' = heat
  /\ UNCHANGED <<heat, genVars, coreVars, uiVars, snapVars, memVars>>

HeatNext ==
  \/ OnCreated(CHOOSE sh \in Shapes : sh.id = "polyA")
  \/ \E l \in layers : SetAsSite(l)
  \/ \E gone \in SUBSET layers : OnDeleted(gone)
  \/ \E v \in {"flow", "utilities"} : HeatSetMode(v)
  \/ \E v \in HeatCells : HeatSetCell(v)
  \/ HeatToggleAdding
  \/ HeatGenerate
  \/ HeatClear
  \/ \E ll \in ClickPoints : MapClick(ll)
  \/ Resubscribe

HeatSpec == Init /\ [][HeatNext]_vars

----------------------------------------------------------------------------
(* snapFeatureToGrid applied to drawn features, and again to its result    *)

MaxCorners == 3

\* ticks in a degree: 111195 m along a meridian, four ticks to the metre
TicksPerDegree == 444780

\* the equator at the prime meridian (the origin onCreated passes) and a
\* point at 60 degrees north
Origins == {<<0, 0>>, <<8, 60 * TicksPerDegree>>}

Spacings == {1, 5}

\* where the corners of a drawn shape lie, in ticks east and north of the
\* origin
CornerOffsets ==
  {<<1, 1>>, <<18, -3>>, <<42, 2>>, <<41, 41>>, <<-6, 40>>, <<20, 20>>}

\* closed rings of k distinct corners: the first position is repeated last
RingsOf(origin, k) ==
  { [i \in 1..(k + 1) |->
       LET c == f[IF i = k + 1 THEN 1 ELSE i]
       IN  <<origin[1] + c[1], origin[2] + c[2]>>] :
      f \in {g \in [1..k -> CornerOffsets] :
               \A a, b \in 1..k : a # b => g[a] # g[b]} }

Rings(origin) == UNION {RingsOf(origin, k) : k \in 3..MaxCorners}

\* a second polygon, 100 m to the east, for the MultiPolygon features
FarRing(origin) ==
  LET at(x, y) == <<origin[1] + 800 + x, origin[2] + y>>
  IN  <<at(3, 1), at(43, 2), at(42, 39), at(3, 1)>>

Features(origin) ==
  UNION { { Feature("Polygon", <<r>>),
            Feature("MultiPolygon", <<<<r>>, <<FarRing(origin)>>>>),
            Feature("LineString", r) } : r \in Rings(origin) }

SnapInputs ==
  UNION { { SnapArgs(f, sp, o, orth) :
              f \in Features(o), sp \in Spacings, orth \in BOOLEAN } :
          o \in Origins }

\* a shape is drawn and snapFeatureToGrid is about to be applied to it
SnapInit ==
  /\ GenIdle /\ CoreIdle /\ UiIdle /\ MemIdle /\ HeatIdle
  /\ snapArgs \in SnapInputs
  /\ snapOut = NULL
  /\ snapOut2 = NULL

\* feat = snapFeatureToGrid(feat, gridSize, origin, orthogonal)
Snap ==
  /\ snapOut = NULL
  /\ snapOut' = Some(snapFeatureToGrid(snapArgs.feature, snapArgs.spacingM,
                                       snapArgs.origin, snapArgs.orthogonal))
  /\ UNCHANGED <<snapArgs, snapOut2, genVars, coreVars, uiVars, memVars, heatVars>>

\* the returned feature is snapped again with the same arguments
SnapAgain ==
  /\ snapOut # NULL
  /\ snapOut2 = NULL
  /\ snapOut2' = Some(snapFeatureToGrid(Val(snapOut), snapArgs.spacingM,
                                        snapArgs.origin, snapArgs.orthogonal))
  /\ UNCHANGED <<snapArgs, snapOut, genVars, coreVars, uiVars, memVars, heatVars>>

SnapNext == Snap \/ SnapAgain

SnapSpec == SnapInit /\ [][SnapNext]_vars

----------------------------------------------------------------------------
(* The core functions on objects in memory.  heap[a] is the array or       *)
(* object at address a: tag is a geometry's type, a block's                *)
(* properties.type, a type's id or an issue's kind; nums are the numbers   *)
(* it holds; refs are the addresses of the arrays and objects it holds.    *)

Cell(kind, tag, nums, refs) ==
  [kind |-> kind, tag |-> tag, nums |-> nums, refs |-> refs]

\* new arrays and objects, the last of them at the address returned
Store(h, cells) == [h |-> h \o cells, a |-> Len(h) + Len(cells)]

Alloc(h, cell) == Store(h, <<cell>>)

\* the cells of nested arrays laid out from address base on, every array
\* after the arrays it holds: a position [lng, lat] has depth 0, an array of
\* arrays of depth d has depth d + 1
RECURSIVE ArrSize(_, _)
RECURSIVE ArrSizes(_, _, _)
ArrSizes(v, d, k) ==
  IF k > Len(v) THEN 0 ELSE ArrSize(v[k], d) + ArrSizes(v, d, k + 1)

\* how many arrays make up a nested array
ArrSize(v, d) == IF d = 0 THEN 1 ELSE 1 + ArrSizes(v, d - 1, 1)

RECURSIVE ArrCells(_, _, _)
RECURSIVE ArrChildren(_, _, _, _)
ArrChildren(v, d, k, base) ==
  IF k > Len(v) THEN <<>>
  ELSE ArrCells(v[k], d, base)
         \o ArrChildren(v, d, k + 1, base + ArrSize(v[k], d))

RECURSIVE ArrRoots(_, _, _, _)
ArrRoots(v, d, k, base) ==
  IF k > Len(v) THEN <<>>
  ELSE <<base + ArrSize(v[k], d) - 1>>
         \o ArrRoots(v, d, k + 1, base + ArrSize(v[k], d))

ArrCells(v, d, base) ==
  IF d = 0 THEN <<Cell("Array", "", v, <<>>)>>
  ELSE ArrChildren(v, d - 1, 1, base)
         \o <<Cell("Array", "", <<>>, ArrRoots(v, d - 1, 1, base))>>

StoreArr(h, v, d) == Store(h, ArrCells(v, d, Len(h) + 1))

\* the cells of one new object per item, laid out from address base on, and
\* the addresses of those objects
RECURSIVE Lay(_, _, _, _)
Lay(Cells(_, _), items, k, base) ==
  IF k > Len(items) THEN <<>>
  ELSE Cells(items[k], base)
         \o Lay(Cells, items, k + 1, base + Len(Cells(items[k], base)))

RECURSIVE LayRoots(_, _, _, _)
LayRoots(Cells(_, _), items, k, base) ==
  IF k > Len(items) THEN <<>>
  ELSE <<base + Len(Cells(items[k], base)) - 1>>
         \o LayRoots(Cells, items, k + 1, base + Len(Cells(items[k], base)))

StoreAll(Cells(_, _), h, items) ==
  [h |-> h \o Lay(Cells, items, 1, Len(h) + 1),
   addrs |-> LayRoots(Cells, items, 1, Len(h) + 1)]

RECURSIVE LoadArr(_, _, _)
LoadArr(h, a, d) ==
  IF d = 0 THEN h[a].nums
  ELSE [k \in 1..Len(h[a].refs) |-> LoadArr(h, h[a].refs[k], d - 1)]

\* how deep geometry.coordinates is nested
Depth(type) ==
  IF type = "Polygon" THEN 2 ELSE IF type = "MultiPolygon" THEN 3 ELSE 1

\* a feature {properties, geometry: {type, coordinates}}
FeatureCells(f, tag, nums, base) ==
  LET n == ArrSize(f.coordinates, Depth(f.type))
  IN  ArrCells(f.coordinates, Depth(f.type), base)
        \o << Cell("Geometry", f.type, <<>>, <<base + n - 1>>),
              Cell("Feature", tag, nums, <<base + n>>) >>

StoreFeature(h, f, tag, nums) == Store(h, FeatureCells(f, tag, nums, Len(h) + 1))

LoadFeature(h, a) ==
  LET g == h[h[a].refs[1]]
  IN  Feature(g.tag, LoadArr(h, g.refs[1], Depth(g.tag)))

\* f = feature: the feature itself instead of a copy
NoCopy(h, a) == [h |-> h, a |-> a]

\* JSON.parse(JSON.stringify(feature))
JsonCopy(h, a) == StoreFeature(h, LoadFeature(h, a), h[a].tag, h[a].nums)

\* snapFeatureToGrid on the feature at address a: the memory afterwards and
\* the address of the feature returned
MemSnapFeatureToGrid(h, a, spacingM, origin, ortho) ==
  LET f == JsonCopy(h, a)
      g == f.h[f.a].refs[1]
      type == f.h[g].tag
      coords == f.h[g].refs[1]
  IN  IF type = "Polygon" \/ type = "MultiPolygon"
      THEN LET rings == IF type = "Polygon"
                        THEN Alloc(f.h, Cell("Array", "", <<>>, <<coords>>))
                        ELSE [h |-> f.h, a |-> coords]
               old == LoadArr(rings.h, rings.a, 3)
               newRings ==
                 StoreArr(rings.h,
                          [p \in 1..Len(old) |->
                             [k \in 1..Len(old[p]) |->
                                SnapLinear(old[p][k], spacingM, origin, ortho)]],
                          3)
               assigned == IF type = "Polygon"
                           THEN newRings.h[newRings.a].refs[1]
                           ELSE newRings.a
           IN  [h |-> [newRings.h EXCEPT ![g].refs = <<assigned>>], a |-> f.a]
      ELSE f

\* the ring of a rectangle or block, and of a site
RectRing(r) ==
  << <<r.x0, r.y0>>, <<r.x1, r.y0>>, <<r.x1, r.y1>>, <<r.x0, r.y1>>,
     <<r.x0, r.y0>> >>

SiteRing(s) ==
  IF HasNotch(s)
  THEN << <<s.x0, s.y0>>, <<s.x1, s.y0>>, <<s.x1, s.ny>>, <<s.nx, s.ny>>,
          <<s.nx, s.y1>>, <<s.x0, s.y1>>, <<s.x0, s.y0>> >>
  ELSE RectRing(s)

StoreSite(h, s) == StoreFeature(h, Feature("Polygon", <<SiteRing(s)>>), "", <<>>)

BlockCells(b, base) ==
  FeatureCells(Feature("Polygon", <<RectRing(b)>>), b.type, <<>>, base)

\* the site whose ring is stored at address a
LoadSite(h, a) ==
  LET ring == LoadFeature(h, a).coordinates[1]
      xs == {ring[i][1] : i \in 1..Len(ring)}
      ys == {ring[i][2] : i \in 1..Len(ring)}
      lo(S) == CHOOSE m \in S : \A x \in S : m <= x
      hi(S) == CHOOSE m \in S : \A x \in S : m >= x
      inner(S) == S \ {lo(S), hi(S)}
  IN  [x0 |-> lo(xs), y0 |-> lo(ys), x1 |-> hi(xs), y1 |-> hi(ys),
       nx |-> IF inner(xs) = {} THEN hi(xs) ELSE CHOOSE x \in inner(xs) : TRUE,
       ny |-> IF inner(ys) = {} THEN hi(ys) ELSE CHOOSE y \in inner(ys) : TRUE]

LoadBlock(h, a) ==
  LET ring == LoadFeature(h, a).coordinates[1]
  IN  [x0 |-> ring[1][1], y0 |-> ring[1][2], x1 |-> ring[3][1],
       y1 |-> ring[3][2], type |-> h[a].tag]

\* turf.featureCollection(features): the object keeps the array it is given
StoreCollection(h, addrs) ==
  LET arr == Alloc(h, Cell("Array", "", <<>>, addrs))
  IN  Alloc(arr.h, Cell("FeatureCollection", "", <<>>, <<arr.a>>))

\* blocks.features[i], for every i
LoadBlocks(h, fc) ==
  LET features == h[h[fc].refs[1]].refs
  IN  [k \in 1..Len(features) |-> LoadBlock(h, features[k])]

\* a type {id, w, h} of the types array
TypeCells(t, base) == <<Cell("Object", t.id, <<t.w, t.h>>, <<>>)>>

LoadTypes(h, a) ==
  [k \in 1..Len(h[a].refs) |->
     LET t == h[h[a].refs[k]]
     IN  [id |-> t.tag, w |-> t.nums[1], h |-> t.nums[2]]]

\* generateBlocks on the site and the types array in memory: every accepted
\* rectangle is a new feature, pushed to the new array out
MemGenerateBlocks(h, sitePolygon, types, aisleWidth, cap) ==
  LET out == generateBlocks(GenArgs(Some(LoadSite(h, sitePolygon)),
                                    LoadTypes(h, types), aisleWidth, 0,
                                    Some(1), 0, cap))
      rects == StoreAll(BlockCells, h, out)
  IN  StoreCollection(rects.h, rects.addrs)

\* validateLayout on the site and the block collection in memory: the geom
\* of a clash is the new feature turf.intersect returned, that of a boundary
\* issue is the block itself; the shapes of an aisle's and a turning issue's
\* geom are left out.  Address 0 stands for a call that threw.
MemValidateLayout(h, sitePolygon, bc, minAisle, boundaryClear, tr) ==
  LET bs == LoadBlocks(h, bc)
      features == h[h[bc].refs[1]].refs
      res == validateLayout(ValArgs(Some(LoadSite(h, sitePolygon)), bs,
                                    minAisle, boundaryClear, tr))
      issue(x, base) ==
        LET inter == IF x.kind = "clash"
                     THEN <<RectRing(Val(intersect(bs[x.a + 1], bs[x.b + 1])))>>
                     ELSE <<>>
            geom == IF x.kind = "boundary" THEN <<>>
                    ELSE FeatureCells(Feature("Polygon", inter), "", <<>>, base)
            at == IF x.kind = "boundary" THEN features[x.a + 1]
                  ELSE base + Len(geom) - 1
        IN  geom \o <<Cell("Issue", x.kind, <<x.a, x.b, x.area>>, <<at>>)>>
      issues == StoreAll(issue, h, res.value)
  IN  IF res.thrown THEN [h |-> h, a |-> 0]
      ELSE Alloc(issues.h, Cell("Array", "", <<>>, issues.addrs))

\* generateHeatSquares on the site and the sources array in memory: every
\* square is turf.feature(cell.geometry, {value}) for a cell of the new grid
MemGenerateHeatSquares(h, sitePolygon, sources, cellM) ==
  LET squares == generateHeatSquares(Some(LoadSite(h, sitePolygon)),
                                     LoadArr(h, sources, 1), cellM)
      square(sq, base) ==
        FeatureCells(Feature("Polygon", <<RectRing(sq.cell)>>), "",
                     <<sq.value>>, base)
      feats == StoreAll(square, h, squares)
  IN  StoreCollection(feats.h, feats.addrs)

\* the arrays and objects reachable from address a
RECURSIVE ReachFrom(_, _)
ReachFrom(h, a) ==
  {a} \cup UNION {ReachFrom(h, h[a].refs[k]) : k \in 1..Len(h[a].refs)}

\* what a caller holds before it calls a core function: a drawn feature, a
\* site, a types array, a block collection and a sources array
MemRing == << <<1, 1>>, <<42, 2>>, <<41, 41>>, <<1, 1>> >>

MemFeatures ==
  { Feature("Polygon", <<MemRing>>),
    Feature("MultiPolygon", <<<<MemRing>>, <<FarRing(<<0, 0>>)>>>>),
    Feature("LineString", MemRing) }

MemLayouts ==
  {<<>>, SampleLayout, <<buildRect(<<M(50), M(50)>>, 40, 40, 0, "receiving")>>}

MemSources == {<<>>, <<<<M(20), M(20)>>, <<M(100), M(80)>>>>}

MemScene(f, s, ts, bs, src) ==
  LET feature == StoreFeature(<<>>, f, "", <<>>)
      sitePolygon == StoreSite(feature.h, s)
      typeObjs == StoreAll(TypeCells, sitePolygon.h, ts)
      types == Alloc(typeObjs.h, Cell("Array", "", <<>>, typeObjs.addrs))
      blockObjs == StoreAll(BlockCells, types.h, bs)
      bc == StoreCollection(blockObjs.h, blockObjs.addrs)
      sources == StoreArr(bc.h, src, 1)
  IN  [h |-> sources.h,
       args |-> [feature |-> feature.a, site |-> sitePolygon.a,
                 types |-> types.a, blocks |-> bc.a, sources |-> sources.a]]

MemScenes ==
  { MemScene(f, Val(s), ts, bs, src) :
      f \in MemFeatures, s \in Sites,
      ts \in {<<PROCESS_TYPES[1]>>, <<PROCESS_TYPES[1], PROCESS_TYPES[4]>>},
      bs \in MemLayouts, src \in MemSources }

MemInit ==
  /\ GenIdle /\ CoreIdle /\ UiIdle /\ SnapIdle /\ HeatIdle
  /\ \E sc \in MemScenes :
       /\ heap = sc.h
       /\ memCall = [fn |-> "none", args |-> sc.args]
  /\ heap0 = <<>>
  /\ memRet = NULL

\* the caller calls fn on its arguments; r is the memory afterwards and the
\* address returned
MemCalled(fn, r) ==
  /\ memCall.fn = "none"
  /\ memCall' = [memCall EXCEPT !.fn = fn]
  /\ heap0' = heap
  /\ heap' = r.h
  /\ memRet' = Some(r.a)
  /\ UNCHANGED <<genVars, coreVars, uiVars, snapVars, heatVars>>

MemSnap(spacingM, ortho) ==
  MemCalled("snapFeatureToGrid",
            MemSnapFeatureToGrid(heap, memCall.args.feature, spacingM,
                                 <<0, 0>>, ortho))

MemGenerate(aisleWidth, cap) ==
  MemCalled("generateBlocks",
            MemGenerateBlocks(heap, memCall.args.site, memCall.args.types,
                              aisleWidth, cap))

MemValidate(minAisle, boundaryClear, tr) ==
  MemCalled("validateLayout",
            MemValidateLayout(heap, memCall.args.site, memCall.args.blocks,
                              minAisle, boundaryClear, tr))

MemHeat(cellM) ==
  MemCalled("generateHeatSquares",
            MemGenerateHeatSquares(heap, memCall.args.site,
                                   memCall.args.sources, cellM))

MemNext ==
  \/ \E sp \in Spacings, ortho \in BOOLEAN : MemSnap(sp, ortho)
  \/ \E aw \in {20, 200}, cap \in {Some(0), Some(1)} : MemGenerate(aw, cap)
  \/ \E ma \in {0, 20}, bcl \in {0, 5, 100}, tr \in {0, M(100)} :
       MemValidate(ma, bcl, tr)
  \/ \E c \in {40, 80} : MemHeat(c)

MemSpec == MemInit /\ [][MemNext]_vars

----------------------------------------------------------------------------
(* Properties of generateBlocks                                            *)

\* two rectangles share interior area
Overlap(a, b) == a.x0 < b.x1 /\ b.x0 < a.x1 /\ a.y0 < b.y1 /\ b.y0 < a.y1

\* C1: the blocks of the collection are pairwise non-overlapping (no two of
\* them share interior area), whatever the site, types, aisleWidth, rotation,
\* seed, jitter and maxBlocks.
C1_PairwiseDisjoint ==
  \A i, j \in 1..Len(gSt.out) : i < j => ~Overlap(gSt.out[i], gSt.out[j])

\* C2: every emitted block lies inside the site and at least aisleWidth/2 from
\* every edge of it (inside the site shrunk by aisleWidth/2), and nothing is
\* emitted when the shrunk site is empty.
C2_Containment ==
  gArgs.sitePolygon # NULL =>
    LET s == Val(gArgs.sitePolygon)
        d == M(gArgs.aisleWidth) \div 2
    IN  /\ \A i \in 1..Len(gSt.out) :
             LET b == gSt.out[i]
             IN  /\ b.x0 - s.x0 >= d /\ s.x1 - b.x1 >= d
                 /\ b.y0 - s.y0 >= d /\ s.y1 - b.y1 >= d
                 /\ ~(b.x1 > s.nx /\ b.y1 > s.ny)
                 /\ HasNotch(s) =>
                      \/ s.nx - b.x1 >= d
                      \/ s.ny - b.y1 >= d
                      \/ /\ s.nx >= b.x1 /\ s.ny >= b.y1
                         /\ (s.nx - b.x1) * (s.nx - b.x1)
                              + (s.ny - b.y1) * (s.ny - b.y1) >= d * d
        /\ InsetOf(s, d) = NULL => gSt.out = <<>>

\* C2 witness: a block has been emitted and a candidate that fits the site but
\* not the shrunk site has just been rejected.
C2_Witness ==
  /\ gSt.last = "tight"
  /\ Len(gSt.out) >= 1
  /\ gArgs.aisleWidth > 0

\* C3: a call with the arguments of an earlier call returns the collection the
\* earlier call returned, same blocks in the same order, whatever was called
\* in between.
C3_Deterministic ==
  (gSt.pc = "done" /\ gFirst # NULL /\ Val(gFirst).args = gArgs)
    => gSt.out = Val(gFirst).out

\* C3 witness: a jittered call has returned blocks, another call has been made
\* since, and the first call has been repeated.
C3_Witness ==
  /\ gSt.pc = "done"
  /\ gFirst # NULL
  /\ Val(gFirst).args = gArgs
  /\ gCalls >= Val(gFirst).n + 2
  /\ gArgs.jitter > 0
  /\ gSt.out # <<>>

\* C4 (as stated): for every value N given as maxBlocks, at most N blocks are
\* returned.
C4_AtMostN ==
  gArgs.maxBlocks # NULL => Len(gSt.out) <= Val(gArgs.maxBlocks)

\* C4 (amended): for every N >= 1 given as maxBlocks, at most N blocks are
\* returned.
C4_AtMostPositiveN ==
  (gArgs.maxBlocks # NULL /\ Val(gArgs.maxBlocks) >= 1)
    => Len(gSt.out) <= Val(gArgs.maxBlocks)

\* C4 witness: the cap cut the call short, with pairs still unvisited.
C4_Witness ==
  /\ gSt.pc = "done"
  /\ gArgs.maxBlocks # NULL
  /\ Val(gArgs.maxBlocks) >= 2
  /\ Len(gSt.out) = Val(gArgs.maxBlocks)
  /\ gSt.k < NPairs(gArgs, gSt)

----------------------------------------------------------------------------
(* Properties of the core functions on absent input, and of the UI state   *)

\* the input of the call is absent: no site, or no heat sources
AbsentInput ==
  \/ call.fn = "generateBlocks" /\ call.args.sitePolygon = NULL
  \/ call.fn = "validateLayout" /\ call.args.site = NULL /\ call.args.blocks = <<>>
  \/ call.fn = "generateHeatSquares"
       /\ (call.args.site = NULL \/ call.args.sources = <<>>)

\* C5: generateBlocks, validateLayout and generateHeatSquares each return an
\* empty result and raise no error when the input is absent; in particular
\* validateLayout with site = null (and no blocks) returns an empty list for
\* every minAisle, boundaryClearance and turnRadius.
C5_AbsentInputGivesEmpty ==
  AbsentInput => (~ret.thrown /\ ret.value = <<>>)

\* C6: every action that changes the site or the block collection leaves the
\* validation list empty.
C6_ValidationDiscarded ==
  [][(site' # site \/ blocks' # blocks) => validation' = <<>>]_vars

\* C7: every action that changes the site leaves the block collection empty.
C7_BlocksDiscarded ==
  [][site' # site => blocks' = <<>>]_vars

----------------------------------------------------------------------------
(* Properties of snapFeatureToGrid                                         *)

\* a position is a point of the lattice of the given spacing anchored at the
\* origin
OnLattice(c, spacingM, origin) ==
  /\ (c[1] - origin[1]) % (TicksPerMetreLng(origin) * spacingM) = 0
  /\ (c[2] - origin[2]) % (TicksPerMetreLat(origin) * spacingM) = 0

\* C8: with orthogonal = true, any two consecutive output vertices of every
\* ring of a polygon feature have equal longitude or equal latitude.
C8_OrthogonalEdges ==
  (snapOut # NULL /\ snapArgs.orthogonal) =>
    \A r \in LinearRings(Val(snapOut)) :
      \A i \in 1..(Len(r) - 1) : r[i][1] = r[i + 1][1] \/ r[i][2] = r[i + 1][2]

\* C9: for a Polygon or MultiPolygon and either value of the orthogonal flag,
\* every ring vertex of the returned feature is a point of the lattice.
C9_VerticesOnLattice ==
  snapOut # NULL =>
    \A r \in LinearRings(Val(snapOut)) :
      \A i \in 1..Len(r) : OnLattice(r[i], snapArgs.spacingM, snapArgs.origin)

\* C10: snapping the returned feature again with the same spacing, origin and
\* orthogonal flag returns the same coordinates.
C10_Idempotent ==
  snapOut2 # NULL => Val(snapOut2).coordinates = Val(snapOut).coordinates

----------------------------------------------------------------------------
(* Properties of validateLayout                                            *)

\* a validateLayout call has returned its issue list
ValReturned == call.fn = "validateLayout" /\ ~ret.thrown

\* the issues of one kind, in the order of the list
IssuesOf(issues, kind) == SelectSeq(issues, LAMBDA x : x.kind = kind)

\* the area two rectangles have in common
OverlapArea(a, b) ==
  (Min(a.x1, b.x1) - Max(a.x0, b.x0)) * (Min(a.y1, b.y1) - Max(a.y0, b.y0))

\* C11: validateLayout returns a list with exactly one clash issue for every
\* pair of blocks i < j that overlap in a region of positive area, with
\* a = i, b = j and the area of the overlap, and no clash issue for any other
\* pair.
C11_ClashExactlyOverlaps ==
  call.fn = "validateLayout" =>
    LET bs == call.args.blocks
        cl == IssuesOf(ret.value, "clash")
    IN  /\ \A i, j \in 0..(Len(bs) - 1) :
             (i < j /\ Overlap(bs[i + 1], bs[j + 1])) =>
               /\ Cardinality({k \in 1..Len(cl) : cl[k].a = i /\ cl[k].b = j}) = 1
               /\ \A k \in 1..Len(cl) :
                    (cl[k].a = i /\ cl[k].b = j) =>
                      cl[k].area = OverlapArea(bs[i + 1], bs[j + 1])
        /\ \A k \in 1..Len(cl) :
             /\ cl[k].a >= 0 /\ cl[k].a < cl[k].b /\ cl[k].b < Len(bs)
             /\ Overlap(bs[cl[k].a + 1], bs[cl[k].b + 1])


\* the index pairs of the aisle issues of a list
AislePairs(issues) ==
  LET ai == IssuesOf(issues, "aisle")
  IN  {<<ai[k].a, ai[k].b>> : k \in 1..Len(ai)}

\* two validateLayout calls have returned that differ in minAisle only
TwoAisles ==
  /\ ValReturned
  /\ call0.fn = "validateLayout"
  /\ ~ret0.thrown
  /\ call0.args = [call.args EXCEPT !.minAisle = call0.args.minAisle]

\* C12: for the same site and blocks and 0 <= m1 <= m2, every pair with an
\* aisle issue at minAisle = m1 has one at minAisle = m2, and the number of
\* aisle issues at m1 is at most the number at m2.
C12_AisleMonotone ==
  (TwoAisles /\ call0.args.minAisle <= call.args.minAisle) =>
    /\ AislePairs(ret0.value) \subseteq AislePairs(ret.value)
    /\ Len(IssuesOf(ret0.value, "aisle")) <= Len(IssuesOf(ret.value, "aisle"))

\* C12 witness: the same blocks were validated with a positive minAisle and
\* then with a larger one, which reported more aisle issues.
C12_Witness ==
  /\ TwoAisles
  /\ 0 < call0.args.minAisle
  /\ call0.args.minAisle < call.args.minAisle
  /\ Len(IssuesOf(ret0.value, "aisle")) < Len(IssuesOf(ret.value, "aisle"))

\* C13: validateLayout raises no error when a geometric operation
\* degenerates: with a site given, an intersection without area or a site
\* that shrinks to nothing is skipped and an issue list is returned.
C13_DegenerateSkipped ==
  (call.fn = "validateLayout" /\ call.args.site # NULL) => ~ret.thrown

ContainedInShrunk(b, s, d) ==
  /\ b.x0 - s.x0 >= d /\ s.x1 - b.x1 >= d
  /\ b.y0 - s.y0 >= d /\ s.y1 - b.y1 >= d
  /\ ~(b.x1 > s.nx /\ b.y1 > s.ny)
  /\ HasNotch(s) =>
       \/ s.nx - b.x1 >= d
       \/ s.ny - b.y1 >= d
       \/ (s.nx - b.x1) * (s.nx - b.x1) + (s.ny - b.y1) * (s.ny - b.y1) >= d * d

\* the block indices of the boundary issues of a list, in order
BoundaryIndices(issues) ==
  LET bi == IssuesOf(issues, "boundary")
  IN  [k \in 1..Len(bi) |-> bi[k].a]

\* C15: with a site and boundaryClearance > 0, validateLayout returns a list
\* with exactly one boundary issue for every block that is not contained in
\* the site shrunk by boundaryClearance, and none for a block that is; with
\* boundaryClearance = 0 a block on the site edge gets no boundary issue.
C15_BoundaryExactlyOutside ==
  (call.fn = "validateLayout" /\ call.args.site # NULL) =>
    LET v   == call.args
        bs  == v.blocks
        idx == BoundaryIndices(ret.value)
    IN  /\ v.boundaryClearance = 0 => idx = <<>>
        /\ v.boundaryClearance > 0 =>
             \A i \in 0..(Len(bs) - 1) :
               Cardinality({k \in 1..Len(idx) : idx[k] = i}) =
                 IF ContainedInShrunk(bs[i + 1], Val(v.site), M(v.boundaryClearance))
                 THEN 0 ELSE 1

\* the corners of a site, counter-clockwise from the south-west one
Corners(s) ==
  IF HasNotch(s)
  THEN << <<s.x0, s.y0>>, <<s.x1, s.y0>>, <<s.x1, s.ny>>, <<s.nx, s.ny>>,
          <<s.nx, s.y1>>, <<s.x0, s.y1>> >>
  ELSE << <<s.x0, s.y0>>, <<s.x1, s.y0>>, <<s.x1, s.y1>>, <<s.x0, s.y1>> >>

RECURSIVE SumOf(_, _)
SumOf(seq, k) == IF seq = <<>> THEN 0 ELSE Head(seq)[k] + SumOf(Tail(seq), k)

\* the circle of radius r around the mean of the corners of site s lies in s:
\* it stays r away from the four sides of the bounding box and from the notch.
\* With n corners the centre is (sx / n, sy / n); everything is scaled by n.
FitsAroundCentroid(s, r) ==
  LET n  == Len(Corners(s))
      sx == SumOf(Corners(s), 1)
      sy == SumOf(Corners(s), 2)
      toNotchX == IF n * s.nx > sx THEN n * s.nx - sx ELSE 0
      toNotchY == IF n * s.ny > sy THEN n * s.ny - sy ELSE 0
  IN  /\ sx - n * s.x0 >= n * r /\ n * s.x1 - sx >= n * r
      /\ sy - n * s.y0 >= n * r /\ n * s.y1 - sy >= n * r
      /\ HasNotch(s) =>
           toNotchX * toNotchX + toNotchY * toNotchY >= n * n * r * r

\* C16: with a site given, validateLayout returns a list that holds at most
\* one turning issue, and holds one
\* exactly when turnRadius > 0 and the circle of that radius around the site
\* centroid is not contained in the site (for a rectangular site: when the
\* diameter exceeds the shorter side); the same site and thresholds with the
\* blocks cleared give the same turning issues.
C16_TurningExactly ==
  (call.fn = "validateLayout" /\ call.args.site # NULL) =>
    LET v  == call.args
        st == Val(v.site)
        tu == IssuesOf(ret.value, "turning")
    IN  /\ Len(tu) <= 1
        /\ Len(tu) = 1 <=> (v.turnRadius > 0 /\ ~FitsAroundCentroid(st, v.turnRadius))
        /\ ~HasNotch(st) =>
             (Len(tu) = 1 <=>
                /\ v.turnRadius > 0
                /\ 2 * v.turnRadius > Min(st.x1 - st.x0, st.y1 - st.y0))
        /\ (call0.fn = "validateLayout"
              /\ call0.args = [v EXCEPT !.blocks = call0.args.blocks])
             => IssuesOf(ret0.value, "turning") = tu


\* the place of a kind of issue in the list
KindRank(kind) ==
  CASE kind = "clash" -> 1 [] kind = "aisle" -> 2 [] kind = "boundary" -> 3
    [] kind = "turning" -> 4

\* issue x comes before issue y in the canonical order
Before(x, y) ==
  \/ KindRank(x.kind) < KindRank(y.kind)
  \/ /\ x.kind = y.kind
     /\ x.kind \in {"clash", "aisle", "boundary"}
     /\ \/ x.a < y.a
        \/ x.a = y.a /\ x.b < y.b

\* C17: the returned list is in canonical order: clash issues, then aisle
\* issues, then boundary issues, then the turning issue; clash and aisle
\* issues ascend lexicographically in (a, b) with a < b, boundary issues
\* ascend in the block index.
C17_CanonicalOrder ==
  ValReturned =>
    /\ \A k \in 1..(Len(ret.value) - 1) : Before(ret.value[k], ret.value[k + 1])
    /\ \A k \in 1..Len(ret.value) :
         ret.value[k].kind \in {"clash", "aisle"} => ret.value[k].a < ret.value[k].b

\* C17 witness: a list with several clash issues, several aisle issues, a
\* boundary issue and the turning issue was returned.
C17_Witness ==
  /\ ValReturned
  /\ Len(IssuesOf(ret.value, "clash")) >= 2
  /\ Len(IssuesOf(ret.value, "aisle")) >= 2
  /\ Len(IssuesOf(ret.value, "boundary")) >= 1
  /\ Len(IssuesOf(ret.value, "turning")) = 1

----------------------------------------------------------------------------
(* Properties of the maxBlocks cap and of the heat squares                 *)

\* the call that has returned repeats the remembered call, which had no cap,
\* with a cap N >= 1
CappedRepeat ==
  /\ gSt.pc = "done"
  /\ gFirst # NULL
  /\ Val(gFirst).args.maxBlocks = Some(0)
  /\ gArgs.maxBlocks # NULL
  /\ Val(gArgs.maxBlocks) >= 1
  /\ gArgs = [Val(gFirst).args EXCEPT !.maxBlocks = gArgs.maxBlocks]

\* position of the candidate centre and of the type of a block of a call
\* without jitter
CenterIndex(b, centers) ==
  CHOOSE c \in 1..Len(centers) :
    centers[c] = <<(b.x0 + b.x1) \div 2, (b.y0 + b.y1) \div 2>>

TypeIndex(b, types) == CHOOSE t \in 1..Len(types) : types[t].id = b.type

\* C18: with maxBlocks = N >= 1 the call returns exactly the first min(N, M)
\* blocks, in the same order, of the M blocks returned for the same arguments
\* without a cap; the blocks are ordered by candidate centre first and by
\* type second.
C18_CapTruncates ==
  /\ CappedRepeat =>
       LET full == Val(gFirst).out
       IN  gSt.out = SubSeq(full, 1, Min(Val(gArgs.maxBlocks), Len(full)))
  /\ (gSt.pc = "done" /\ gArgs.jitter = 0) =>
       \A i \in 1..(Len(gSt.out) - 1) :
         LET ci == CenterIndex(gSt.out[i], gSt.centers)
             cj == CenterIndex(gSt.out[i + 1], gSt.centers)
         IN  \/ ci < cj
             \/ /\ ci = cj
                /\ TypeIndex(gSt.out[i], gArgs.types)
                     < TypeIndex(gSt.out[i + 1], gArgs.types)

\* C18 witness: a call without a cap returned more than two blocks of two
\* types, and the same call with maxBlocks = 2 has returned two blocks.
C18_Witness ==
  /\ CappedRepeat
  /\ Val(gArgs.maxBlocks) = 2
  /\ Len(Val(gFirst).out) > 2
  /\ Len(gSt.out) = 2
  /\ Len(gArgs.types) = 2

\* squared distance, in quarter units, from the centre of a cell to the
\* nearest of the sources
NearestSq(cell, sources) ==
  LET d2(i) == (cell.x0 + cell.x1 - 2 * sources[i][1]) * (cell.x0 + cell.x1 - 2 * sources[i][1])
                 + (cell.y0 + cell.y1 - 2 * sources[i][2]) * (cell.y0 + cell.y1 - 2 * sources[i][2])
  IN  CHOOSE m \in {d2(i) : i \in 1..Len(sources)} :
        \A i \in 1..Len(sources) : m <= d2(i)

\* C19: a cell that is no farther from its nearest source than another cell
\* has a value at least as large (so cells equally far from their nearest
\* source have the same value, and with one source the value does not
\* increase with the distance to it); every value is positive and at most
\* 1000 (values are kept in thousandths).
C19_HeatDecays ==
  call.fn = "generateHeatSquares" =>
    LET sq  == ret.value
        src == call.args.sources
    IN  /\ \A i, j \in 1..Len(sq) :
             NearestSq(sq[i].cell, src) <= NearestSq(sq[j].cell, src)
               => sq[i].value >= sq[j].value
        /\ \A i \in 1..Len(sq) : sq[i].value > 0 /\ sq[i].value <= 1000 * 1000

\* C19 witness: squares were generated for two sources, and two of them lie
\* at different distances from their nearest source and differ in value.
C19_Witness ==
  /\ call.fn = "generateHeatSquares"
  /\ Len(call.args.sources) = 2
  /\ \E i, j \in 1..Len(ret.value) :
       /\ NearestSq(ret.value[i].cell, call.args.sources)
            < NearestSq(ret.value[j].cell, call.args.sources)
       /\ ret.value[i].value > ret.value[j].value

----------------------------------------------------------------------------
(* Properties of the shapes on the map                                     *)

\* C20: every shape on the map, drawn or imported, has been passed through
\* the grid snapper before it was added (and so before it can become the
\* site).
C20_EveryShapeSnapped ==
  \A l \in layers : l.snapped


----------------------------------------------------------------------------
(* Further properties of snapFeatureToGrid                                 *)

\* C21: for a LineString feature every vertex of the returned feature is a
\* point of the lattice of the given spacing anchored at the origin.
C21_LineVerticesOnLattice ==
  (snapOut # NULL /\ Val(snapOut).type = "LineString") =>
    \A i \in 1..Len(Val(snapOut).coordinates) :
      OnLattice(Val(snapOut).coordinates[i], snapArgs.spacingM, snapArgs.origin)


----------------------------------------------------------------------------
(* Properties of the core functions as operations on memory                *)

\* C22: after snapFeatureToGrid, generateBlocks, validateLayout or
\* generateHeatSquares returns, every array and object that existed when it
\* was called (the feature, the site polygon, the type list, the block
\* collection, the source list) is as it was; what is returned is a new
\* value; and no array reachable from the feature snapFeatureToGrid returns
\* is reachable from the feature it was given.
C22_ArgumentsUntouched ==
  memRet # NULL =>
    /\ \A a \in 1..Len(heap0) : heap[a] = heap0[a]
    /\ Val(memRet) # 0 => Val(memRet) > Len(heap0)
    /\ memCall.fn = "snapFeatureToGrid" =>
         ReachFrom(heap, Val(memRet)) \cap ReachFrom(heap0, memCall.args.feature) = {}

\* snapFeatureToGrid has returned a polygon whose coordinates differ from
\* those of the polygon it was given
C22_Witness ==
  /\ memRet # NULL
  /\ memCall.fn = "snapFeatureToGrid"
  /\ LoadFeature(heap0, memCall.args.feature).type = "Polygon"
  /\ LoadFeature(heap, Val(memRet)) # LoadFeature(heap0, memCall.args.feature)


----------------------------------------------------------------------------
(* Properties of the heat panel                                            *)

\* C23: a map click while Add Sources mode is on makes the heat state the
\* current one with exactly one point appended to its sources and none
\* removed, whatever heat updates came before it; a click while the mode is
\* off leaves the heat state as it is.
C23_ClickAppendsOne ==
  [][(\E ll \in ClickPoints : MapClick(ll)) =>
       IF heat.adding
       THEN \E ll \in ClickPoints :
              heat' = [heat EXCEPT !.sources = Append(heat.sources, ll)]
       ELSE heat' = heat]_vars


----------------------------------------------------------------------------
(* Properties of the site and the blocks in the UI                         *)

----------------------------------------------------------------------------
(* Further properties of generateBlocks                                    *)

\* the most pairs any call of the generator specification can visit
MostPairs ==
  LET ns == { NPairs(a, GenEnter(a, IdleSt)) : a \in GenInputs }
  IN  CHOOSE n \in ns : \A m \in ns : m <= n

\* the captured states of a generator: acc[i + 1] is the state after i calls
RECURSIVE Trail(_, _)
Trail(acc, n) ==
  IF n = 0 THEN acc ELSE Trail(Append(acc, mulberry32(acc[Len(acc)]).a), n - 1)

\* for every seed, the states of its generator over the longest run
DrawTrail == [sd \in Seeds |-> Trail(<<FreshRng(sd)>>, 2 * MostPairs)]

\* C25: when generateBlocks has visited k (candidate centre, type) pairs, it
\* has drawn exactly 2k random numbers from the generator of its seed,
\* whether the pairs were accepted or rejected, so the offsets of the next
\* pair depend on the seed and on k alone, and every visit moves on to the
\* next pair.
C25_TwoDrawsPerPair ==
  (gSt.pc # "idle" /\ gArgs.sitePolygon # NULL) =>
    /\ gSt.rng = DrawTrail[gArgs.seed][2 * gSt.k + 1]
    /\ gSt.k <= NPairs(gArgs, gSt)
    /\ Len(gSt.out) <= gSt.k

\* pairs have been visited with jitter, some rejected and some accepted
C25_Witness ==
  /\ gSt.pc = "done"
  /\ gArgs.sitePolygon # NULL
  /\ gArgs.jitter > 0
  /\ gSt.k >= 2
  /\ 0 < Len(gSt.out) /\ Len(gSt.out) < gSt.k


\* the rectangle built for pair number k (from 0) of a call
PairRect(a, st, k) ==
  LET nT     == Len(a.types)
      center == st.centers[(k \div nT) + 1]
      t      == a.types[(k % nT) + 1]
      d1     == mulberry32(DrawTrail[a.seed][2 * k + 1])
      d2     == mulberry32(d1.a)
      jw     == JitterOffset(d1.num, a.jitter)
      jh     == JitterOffset(d2.num, a.jitter)
  IN  buildRect(<<center[1] + jw, center[2] + jh>>, t.w, t.h, a.rotation, t.id)

\* the three tests a rectangle passes before it is pushed
Accepted(a, rect) ==
  LET poly  == Val(a.sitePolygon)
      inset == InsetOf(poly, M(a.aisleWidth) \div 2)
  IN  /\ booleanWithin(rect, poly)
      /\ inset # NULL
      /\ WithinInset(rect, inset)

\* C26: a maxBlocks of 0, null or undefined disables the cap: the call
\* visits every (candidate centre, type) pair and returns every accepted
\* rectangle, in visiting order.
C26_ZeroCapIsNoCap ==
  (gSt.pc = "done" /\ gArgs.sitePolygon # NULL /\ ~Truthy(gArgs.maxBlocks)) =>
    LET Pass(r) == Accepted(gArgs, r)
        n == NPairs(gArgs, gSt)
    IN  /\ gSt.k = n
        /\ gSt.out = SelectSeq([i \in 1..n |-> PairRect(gArgs, gSt, i - 1)], Pass)

\* a call with maxBlocks = 0 has returned more blocks than any cap tried
C26_Witness ==
  /\ gSt.pc = "done"
  /\ gArgs.sitePolygon # NULL
  /\ gArgs.maxBlocks = Some(0)
  /\ Len(gSt.out) > MaxCap
  /\ Len(gSt.out) < gSt.k


\* a ring whose first position is repeated last
ClosedRing(r) == Len(r) > 0 /\ r[1] = r[Len(r)]

\* two polygons' coordinates have as many rings, of as many positions each,
\* and q closes every ring that p closes
SameRings(p, q) ==
  /\ Len(q) = Len(p)
  /\ \A k \in 1..Len(p) :
       /\ Len(q[k]) = Len(p[k])
       /\ ClosedRing(p[k]) => ClosedRing(q[k])

\* C27: with orthogonal = false the returned feature has the type of the
\* input, as many rings, as many vertices in every ring, and every ring that
\* was closed in the input is closed in the output.
C27_RingStructureKept ==
  (snapOut # NULL /\ ~snapArgs.orthogonal) =>
    LET f == snapArgs.feature
        g == Val(snapOut)
    IN  /\ g.type = f.type
        /\ f.type = "Polygon" => SameRings(f.coordinates, g.coordinates)
        /\ f.type = "MultiPolygon" =>
             /\ Len(g.coordinates) = Len(f.coordinates)
             /\ \A p \in 1..Len(f.coordinates) :
                  SameRings(f.coordinates[p], g.coordinates[p])
        /\ f.type = "LineString" => Len(g.coordinates) = Len(f.coordinates)

\* a closed ring of a polygon has been snapped without the orthogonal
\* constraint and its corners have moved
C27_Witness ==
  /\ snapOut # NULL
  /\ ~snapArgs.orthogonal
  /\ snapArgs.feature.type = "Polygon"
  /\ ClosedRing(snapArgs.feature.coordinates[1])
  /\ Val(snapOut).coordinates[1][1] # snapArgs.feature.coordinates[1][1]
  /\ Val(snapOut).coordinates[1][2] # snapArgs.feature.coordinates[1][2]


----------------------------------------------------------------------------
(* Further properties of validateLayout                                    *)

\* the index pairs of the clash issues of a list
ClashPairs(issues) ==
  LET cl == IssuesOf(issues, "clash")
  IN  {<<cl[k].a, cl[k].b>> : k \in 1..Len(cl)}

\* C28: with minAisle > 0, every pair (a, b) that validateLayout reports as
\* a clash it also reports as an aisle issue, and the list holds at least as
\* many aisle issues as clash issues.
C28_ClashImpliesAisle ==
  (call.fn = "validateLayout" /\ call.args.minAisle > 0) =>
    /\ ClashPairs(ret.value) \subseteq AislePairs(ret.value)
    /\ Len(IssuesOf(ret.value, "aisle")) >= Len(IssuesOf(ret.value, "clash"))

\* a call with a positive minAisle has returned a clash issue, and more
\* aisle issues than clash issues
C28_Witness ==
  /\ ValReturned
  /\ call.args.minAisle > 0
  /\ IssuesOf(ret.value, "clash") # <<>>
  /\ Len(IssuesOf(ret.value, "aisle")) > Len(IssuesOf(ret.value, "clash"))


----------------------------------------------------------------------------
(* Further properties of the UI                                            *)

\* C29: in every reachable state of the UI a non-empty block collection
\* comes with a site, and the site is null or a drawn Polygon: whenever the
\* site changes it becomes null or the geometry of a Polygon on the map, and
\* a shape deletion empties site and blocks together.
C29_BlocksNeedPolygonSite ==
  /\ [](blocks # <<>> => site # NULL)
  /\ [][/\ site' # site =>
             \/ site' = NULL
             \/ \E l \in layers : l.type = "Polygon" /\ site' = Some(l.geom)
        /\ (\E gone \in SUBSET layers : OnDeleted(gone)) =>
             site' = NULL /\ blocks' = <<>>
        /\ (\E l \in layers : l.type # "Polygon" /\ SetAsSite(l)) => site' = site]_vars

\* blocks have been generated on a drawn polygon while a polyline is on the
\* map as well
C29_Witness ==
  /\ blocks # <<>>
  /\ site # NULL
  /\ \E l \in layers : l.type = "LineString" /\ l.via = "draw"


----------------------------------------------------------------------------
(* Further properties of the heat state                                    *)

\* C30: in every reachable state non-empty heat squares come with a
\* non-empty source list: Generate Heat changes nothing without a site or
\* without a source, every step leaves the sources alone, appends one point
\* to them or empties them, and Clear Heat puts mode, cell, sources, squares
\* and adding back to their initial values in one step.
C30_SquaresNeedSources ==
  /\ [](heat.squares # <<>> => heat.sources # <<>>)
  /\ [][/\ (HeatGenerate /\ (site = NULL \/ heat.sources = <<>>)) => heat' = heat
        /\ \/ heat'.sources = heat.sources
           \/ \E ll \in ClickPoints : heat'.sources = Append(heat.sources, ll)
           \/ heat'.sources = <<>>
        /\ HeatClear => heat' = InitialHeat]_vars

=============================================================================
